---- MODULE Spec2Model ----
(***************************************************************************)
(* Model of the hardened NBA ingestion pipeline (NBA_ETL_Safe.py): the     *)
(* retry executor nba_call_with_retry, the existence-gated blob writes of  *)
(* NBAETLPipeline and the orchestration of NBAETLPipeline.run.             *)
(*                                                                         *)
(* Time is counted in tenths of a second.  The external stats source and   *)
(* the object store are environments: each invocation of an external call *)
(* draws its outcome from Outcomes, each storage call draws a fault.       *)
(***************************************************************************)
EXTENDS Integers, Sequences, FiniteSets, TLC

VARIABLES rx,        \* record of the last stand-alone nba_call_with_retry call
          store,     \* set of keys that exist in the bucket
          puts,      \* gated key -> number of successful put_object calls so far
          today,     \* the calendar day read by datetime.utcnow().date()
          source,    \* the rows LeagueGameFinder holds for the season
          budget,    \* number of runs of NBAETLPipeline.run still to be started
          params,    \* season and include_shot_zones of the current run
          pc,        \* position of the current run
          games,     \* game_ids of the current run, in discovery order
          idx,       \* loop index (dates in load_games, games in the fan-out)
          log,       \* steps of the current run, in order, with their outcome
          last,      \* storage and external-call detail of the last step
          prev,      \* how the run before the current one ended and, if it
                     \* returned, its parameters and games
          fx,        \* input and output of the last stand-alone helper call
          writers    \* position of each ingesting process started side by side

vars == <<rx, source, budget, store, puts, today, params, pc, games, idx, log, last,
          prev, fx, writers>>

pipeVars == <<source, budget, store, puts, today, params, pc, games, idx, log, last,
              prev, fx, writers>>

runVars == <<rx, source, budget, store, puts, today, params, pc, games, idx, log, last,
             prev, writers>>

----------------------------------------------------------------------------
(* Bounds *)

MaxRetries == 3      \* largest retries argument tried on the stand-alone executor
MaxBaseDelay == 2    \* largest base_delay argument (seconds)
NumGames == 2        \* games held by the external source for the season
NumDates == 2        \* distinct game dates of the season
MaxDay == 2          \* calendar days over which runs are observed
MaxRuns == 2         \* runs of the pipeline observed
MaxRows == 4         \* rows of a game-finder result handed to NBA_ETL.load_games
MaxGameId == 2       \* distinct game ids among those rows
MaxMin == 2          \* largest minute count of a played-time value
MaxShots == 3        \* raw shot attempts of one player in one game
MaxStatRows == 2     \* rows of a traditional or advanced box-score table
MaxStatKeys == 2     \* distinct join keys (team or player ids) in those tables
MaxClock == 3        \* days the clock of the relational pipeline can show
MaxDaysBack == 2     \* largest days_back of run_incremental_update
NumEtlGames == 2     \* games LeagueGameFinder returns to the relational pipeline
NumWriters == 2      \* ingesting processes started side by side on one bucket
MaxLoads == 2        \* loads of the same game each of these processes makes
MaxBatch == 2        \* rows handed to one load of a relational table
MaxFinderRows == 3   \* rows LeagueGameFinder returns to get_opponent_points
MaxOppGames == 2     \* game ids among these rows and in the team's game log
MaxN == 2            \* n of get_opponent_points

----------------------------------------------------------------------------
(* nba_call_with_retry *)

\* What one invocation of fn does: raise requests.exceptions.ReadTimeout,
\* raise anything else, or return one of two values.
Outcomes == {"ReadTimeout", "OtherError", "dataA", "dataB"}

Values == {"dataA", "dataB"}

\* random.uniform(0.5, 1.5) = 0.5 + 1.0 * random(), in tenths of a second; the
\* sum rounds to 1.5 for the largest value of random()
JitterSet == {5, 10, 15}

\* fn as the sequence of outcomes of its successive invocations
FnSet(n) == [1..n -> Outcomes]

JitterSeqs(n) == [1..n -> JitterSet]

\* the for loop of nba_call_with_retry from iteration attempt on; calls and
\* sleeps are the invocations of fn and the time.sleep durations so far
RECURSIVE retry_loop(_, _, _, _, _, _, _)
retry_loop(fn, jitter, retries, base_delay, attempt, calls, sleeps) ==
    IF attempt > retries
    THEN \* range exhausted: the function falls off its end
         [status |-> "returned", value |-> "None", calls |-> calls, sleeps |-> sleeps]
    ELSE IF fn[attempt] \in Values
    THEN [status |-> "returned", value |-> fn[attempt],
          calls |-> calls + 1, sleeps |-> sleeps]
    ELSE IF fn[attempt] = "ReadTimeout"
    THEN IF attempt = retries
         THEN [status |-> "raised", value |-> "ReadTimeout",
               calls |-> calls + 1, sleeps |-> sleeps]
         ELSE retry_loop(fn, jitter, retries, base_delay, attempt + 1, calls + 1,
                         Append(sleeps, base_delay * 10 * attempt + jitter[attempt]))
    ELSE \* not caught by "except ReadTimeout"
         [status |-> "raised", value |-> fn[attempt],
          calls |-> calls + 1, sleeps |-> sleeps]

nba_call_with_retry_short(fn, jitter, retries, base_delay) ==
    retry_loop(fn, jitter, retries - 1, base_delay, 1, 0, <<>>)

nba_call_with_retry_once(fn, jitter, retries, base_delay) ==
    retry_loop(fn, jitter, 1, base_delay, 1, 0, <<>>)

nba_call_with_retry_catchall(fn, jitter, retries, base_delay) ==
    retry_loop([i \in DOMAIN fn |-> IF fn[i] = "OtherError" THEN "ReadTimeout" ELSE fn[i]],
               jitter, retries, base_delay, 1, 0, <<>>)

nba_call_with_retry_flat(fn, jitter, retries, base_delay) ==
    LET r == retry_loop(fn, jitter, retries, base_delay, 1, 0, <<>>)
    IN [r EXCEPT !.sleeps = [k \in DOMAIN r.sleeps |-> base_delay * 10 + jitter[k]]]

nba_call_with_retry(fn, jitter, retries, base_delay) ==
    retry_loop(fn, jitter, retries, base_delay, 1, 0, <<>>)

DefaultRetries == 3

DefaultBaseDelay == 2

\* No stand-alone call of the executor has been made yet
NoCall == [retries |-> 0, base_delay |-> 0, fn |-> <<>>, jitter |-> <<>>,
           res |-> [status |-> "none", value |-> "None", calls |-> 0, sleeps |-> <<>>]]

\* One call nba_call_with_retry(fn, retries, base_delay) by some caller
Execute ==
    /\ rx = NoCall
    /\ \E retries \in 0..MaxRetries, base_delay \in 1..MaxBaseDelay :
       \E fn \in FnSet(MaxRetries), jitter \in JitterSeqs(MaxRetries) :
          rx' = [retries |-> retries, base_delay |-> base_delay,
                fn |-> fn, jitter |-> jitter,
                res |-> nba_call_with_retry(fn, jitter, retries, base_delay)]

----------------------------------------------------------------------------
(* The external stats source and the object store *)

Seasons == {"2024-25"}

Dates == 1..NumDates

Days == 1..MaxDay

\* date_from / date_to not given
None == 0

GameDate(g) == ((g - 1) % NumDates) + 1

\* LeagueGameFinder: one row per (game, team), two teams a game
RECURSIVE SourceRows(_, _)
SourceRows(g, n) ==
    IF g > n THEN <<>>
    ELSE <<[GAME_ID |-> g, GAME_DATE |-> GameDate(g), TEAM_ID |-> 2 * g - 1],
           [GAME_ID |-> g, GAME_DATE |-> GameDate(g), TEAM_ID |-> 2 * g]>>
         \o SourceRows(g + 1, n)

\* Series.unique(): distinct values in order of first appearance
RECURSIVE unique(_)
unique(s) ==
    IF s = <<>> THEN <<>>
    ELSE LET rest == unique(SubSeq(s, 1, Len(s) - 1))
             x == s[Len(s)]
         IN IF \E i \in 1..Len(rest) : rest[i] = x THEN rest ELSE Append(rest, x)

\* keys of groupby(): distinct values in ascending order
RECURSIVE sorted(_)
sorted(S) ==
    IF S = {} THEN <<>>
    ELSE LET m == CHOOSE x \in S : \A y \in S : x <= y
         IN <<m>> \o sorted(S \ {m})

game_ids(df) == unique([i \in 1..Len(df) |-> df[i].GAME_ID])

game_dates(df) == sorted({df[i].GAME_DATE : i \in 1..Len(df)})

\* A storage call either is answered by the store or fails for a reason
\* other than "not found" (permission, network)
StorageFaults == {"none", "fault"}

\* The behaviours of fn that differ up to the invocation that ends the call
PipeFns ==
    {fn \in [1..DefaultRetries -> {"ReadTimeout", "OtherError", "dataA"}] :
        \A i \in 1..DefaultRetries :
            fn[i] # "ReadTimeout" => \A j \in (i + 1)..DefaultRetries : fn[j] = "ReadTimeout"}

PipeJitter == [i \in 1..DefaultRetries |-> 5]

api(fn) == nba_call_with_retry(fn, PipeJitter, DefaultRetries, DefaultBaseDelay)

\* Partition keys
teams_key == <<"teams", "", 0>>

players_key == <<"players", "", 0>>

games_key(season, game_date) == <<"games", season, game_date>>

team_game_stats_key(season, game_id) == <<"team_game_stats", season, game_id>>

player_game_stats_key(season, game_id) == <<"player_game_stats", season, game_id>>

player_team_history_key(season, day) == <<"player_team_history", season, day>>

standings_key(season, day) == <<"standings", season, day>>

Keys ==
    {teams_key, players_key}
    \cup {games_key(s, d) : s \in Seasons, d \in Dates}
    \cup {team_game_stats_key(s, g) : s \in Seasons, g \in 1..NumGames}
    \cup {player_game_stats_key(s, g) : s \in Seasons, g \in 1..NumGames}
    \cup {player_team_history_key(s, t) : s \in Seasons, t \in Days}
    \cup {standings_key(s, t) : s \in Seasons, t \in Days}

\* Keys written behind "if not s3_exists(key)"
GatedKeys == {k \in Keys : k[1] \in {"games", "team_game_stats", "player_game_stats",
                                     "player_team_history"}}

s3_exists_never(st, key, fault) == "False"

upload_parquet_partial(st, pt, key, fault) ==
    IF fault = "none"
    THEN [store |-> st \cup {key},
          puts |-> [k \in DOMAIN pt |-> IF k = key THEN pt[k] + 1 ELSE pt[k]],
          put |-> "ok"]
    ELSE [store |-> st \cup {key}, puts |-> pt, put |-> "failed"]

\* s3_exists: head_object answered -> True; any exception -> False
s3_exists(st, key, fault) ==
    IF fault = "none" /\ key \in st THEN "True" ELSE "False"

\* upload_parquet: put_object overwrites unconditionally, or raises
upload_parquet(st, pt, key, fault) ==
    IF fault = "none"
    THEN [store |-> st \cup {key},
          puts |-> [k \in DOMAIN pt |-> IF k = key THEN pt[k] + 1 ELSE pt[k]],
          put |-> "ok"]
    ELSE [store |-> st, puts |-> pt, put |-> "failed"]

\* Detail of one step: the key it addresses, whether the key existed before,
\* the fault and answer of its existence check, its invocations of external
\* calls, its rate_limit waits, what became of its put, for extract_games
\* the date range asked for, and its external calls ("call", retries
\* included) and rate_limit waits ("wait") in the order they happen; open,
\* spaced, wrote (the keys put so far in the run), asked (the box scores
\* load_player_team_history has requested in the run, each with the key it
\* was working on and the game) and snapshots (its puts of the run in
\* order, each with its key and game)
\* are filled in by Step
Detail(step, key, st, headFault, exists, calls, waits, put) ==
    [step |-> step, key |-> key, existed |-> key \in st, headFault |-> headFault,
     exists |-> exists, calls |-> calls, waits |-> waits, put |-> put,
     range |-> <<None, None>>, events |-> <<>>, open |-> FALSE, spaced |-> TRUE,
     wrote |-> {}, asked |-> {}, snapshots |-> <<>>]

NoStep == [step |-> "none", key |-> teams_key, existed |-> FALSE, headFault |-> "none",
           exists |-> "none", calls |-> 0, waits |-> 0, put |-> "none",
           range |-> <<None, None>>, events |-> <<>>, open |-> FALSE, spaced |-> TRUE,
           wrote |-> {}, asked |-> {}, snapshots |-> <<>>]

Happened(detail, events) == [detail EXCEPT !.events = events]

\* open: an external call has ended and no rate_limit wait has followed it
\* yet; spaced: no external call of these events started while open
RECURSIVE Spacing(_, _, _)
Spacing(open, spaced, events) ==
    IF events = <<>> THEN [open |-> open, spaced |-> spaced]
    ELSE IF Head(events) = "call" THEN Spacing(TRUE, spaced /\ ~open, Tail(events))
    ELSE Spacing(FALSE, spaced, Tail(events))

\* Result of a load: the store after it, whether it raised, its detail
Result(st, pt, raised, detail) ==
    [store |-> st, puts |-> pt, raised |-> raised, last |-> detail]

----------------------------------------------------------------------------
(* The loads of NBAETLPipeline *)

load_teams_gated(st, pt, putFault) ==
    LET exists == s3_exists(st, teams_key, "none")
        up == upload_parquet(st, pt, teams_key, putFault)
    IN IF exists = "True"
       THEN Result(st, pt, FALSE,
                   Detail("load_teams", teams_key, st, "none", exists, 0, 0, "none"))
       ELSE Result(up.store, up.puts, up.put # "ok",
                   Detail("load_teams", teams_key, st, "none", exists, 0, 0, up.put))

load_teams(st, pt, putFault) ==
    LET up == upload_parquet(st, pt, teams_key, putFault)
    IN Result(up.store, up.puts, up.put # "ok",
              Detail("load_teams", teams_key, st, "none", "none", 0, 0, up.put))

load_players(st, pt, putFault) ==
    LET up == upload_parquet(st, pt, players_key, putFault)
    IN Result(up.store, up.puts, up.put # "ok",
              Detail("load_players", players_key, st, "none", "none", 0, 0, up.put))

extract_games_exclusive(rows, season, date_from, date_to) ==
    LET df == rows
        keep(r) == /\ (date_from # None => r.GAME_DATE > date_from)
                   /\ (date_to # None => r.GAME_DATE <= date_to)
    IN SelectSeq(df, keep)

\* extract_games: the rows of the season with date_from <= GAME_DATE <= date_to
extract_games(rows, season, date_from, date_to) ==
    LET df == rows
        keep(r) == /\ (date_from # None => r.GAME_DATE >= date_from)
                   /\ (date_to # None => r.GAME_DATE <= date_to)
    IN SelectSeq(df, keep)

load_games_day_ungated(st, pt, season, game_date, headFault, putFault) ==
    LET s3_key == games_key(season, game_date)
        up == upload_parquet(st, pt, s3_key, putFault)
    IN Result(up.store, up.puts, up.put # "ok",
              Detail("load_games", s3_key, st, headFault, "none", 0, 0, up.put))

\* one iteration of the groupby loop of load_games
load_games_day(st, pt, season, game_date, headFault, putFault) ==
    LET s3_key == games_key(season, game_date)
        exists == s3_exists(st, s3_key, headFault)
    IN IF exists = "True"
       THEN Result(st, pt, FALSE,
                   Detail("load_games", s3_key, st, headFault, exists, 0, 0, "none"))
       ELSE LET up == upload_parquet(st, pt, s3_key, putFault)
            IN Result(up.store, up.puts, up.put # "ok",
                      Detail("load_games", s3_key, st, headFault, exists, 0, 0, up.put))

load_team_game_stats(st, pt, game_id, season, headFault, fn1, fn2, putFault) ==
    LET s3_key == team_game_stats_key(season, game_id)
        exists == s3_exists(st, s3_key, headFault)
        trad == api(fn1)
        adv == api(fn2)
        D(calls, waits, put, events) ==
            Happened(Detail("load_team_game_stats", s3_key, st, headFault, exists, calls, waits, put),
                     events)
    IN IF exists = "True" THEN Result(st, pt, FALSE, D(0, 0, "none", <<>>))
       ELSE IF trad.status = "raised"
       THEN Result(st, pt, TRUE, D(trad.calls, 0, "none", <<"call">>))
       ELSE IF adv.status = "raised"
       THEN Result(st, pt, TRUE,
                   D(trad.calls + adv.calls, 1, "none", <<"call", "wait", "call">>))
       ELSE LET up == upload_parquet(st, pt, s3_key, putFault)
            IN Result(up.store, up.puts, up.put # "ok",
                      D(trad.calls + adv.calls, 1, up.put, <<"call", "wait", "call">>))

load_player_game_stats(st, pt, game_id, season, headFault, fn1, fn2, putFault) ==
    LET s3_key == player_game_stats_key(season, game_id)
        exists == s3_exists(st, s3_key, headFault)
        trad == api(fn1)
        adv == api(fn2)
        D(calls, waits, put, events) ==
            Happened(Detail("load_player_game_stats", s3_key, st, headFault, exists, calls, waits, put),
                     events)
    IN IF exists = "True" THEN Result(st, pt, FALSE, D(0, 0, "none", <<>>))
       ELSE IF trad.status = "raised"
       THEN Result(st, pt, TRUE, D(trad.calls, 0, "none", <<"call">>))
       ELSE IF adv.status = "raised"
       THEN Result(st, pt, TRUE,
                   D(trad.calls + adv.calls, 1, "none", <<"call", "wait", "call">>))
       ELSE LET up == upload_parquet(st, pt, s3_key, putFault)
            IN Result(up.store, up.puts, up.put # "ok",
                      D(trad.calls + adv.calls, 1, up.put, <<"call", "wait", "call">>))

load_standings(st, pt, season, day, fn, putFault) ==
    LET standings == api(fn)
        key == standings_key(season, day)
        D(put) == Happened(Detail("load_standings", key, st, "none", "none",
                                  standings.calls, 0, put),
                           <<"call">>)
    IN IF standings.status = "raised" THEN Result(st, pt, TRUE, D("none"))
       ELSE LET up == upload_parquet(st, pt, key, putFault)
            IN Result(up.store, up.puts, up.put # "ok", D(up.put))

\* boxscore.get_data_frames()[0] of a game: a player row for each of its
\* two teams
players_df(game_id) ==
    [i \in 1..2 |-> [PLAYER_ID |-> 10 * (2 * game_id - 2 + i) + 1,
                     TEAM_ID |-> 2 * game_id - 2 + i,
                     TEAM_ABBREVIATION |-> 2 * game_id - 2 + i,
                     MIN |-> i]]

\* players_df[["PLAYER_ID", "TEAM_ID", "TEAM_ABBREVIATION"]].drop_duplicates()
history_df(game_id) ==
    LET df == players_df(game_id)
    IN unique([i \in 1..Len(df) |->
                 <<df[i].PLAYER_ID, df[i].TEAM_ID, df[i].TEAM_ABBREVIATION>>])

load_player_team_history_eager(st, pt, game_id, season, day, headFault, fn, putFault) ==
    LET s3_key == player_team_history_key(season, day)
        exists == s3_exists(st, s3_key, headFault)
        boxscore == api(fn)
        D(calls, put) ==
            Happened(Detail("load_player_team_history", s3_key, st, headFault, exists,
                            calls, 0, put),
                     <<"call">>)
    IN IF boxscore.status = "raised" THEN Result(st, pt, TRUE, D(boxscore.calls, "none"))
       ELSE IF exists = "True" THEN Result(st, pt, FALSE, D(boxscore.calls, "none"))
       ELSE LET up == upload_parquet(st, pt, s3_key, putFault)
            IN Result(up.store, up.puts, up.put # "ok", D(boxscore.calls, up.put))

load_player_team_history(st, pt, game_id, season, day, headFault, fn, putFault) ==
    LET s3_key == player_team_history_key(season, day)
        exists == s3_exists(st, s3_key, headFault)
        boxscore == api(fn)
        D(calls, put) ==
            Happened(Detail("load_player_team_history", s3_key, st, headFault, exists,
                            calls, 0, put),
                     IF calls > 0 THEN <<"call">> ELSE <<>>)
    IN IF exists = "True" THEN Result(st, pt, FALSE, D(0, "none"))
       ELSE IF boxscore.status = "raised" THEN Result(st, pt, TRUE, D(boxscore.calls, "none"))
       ELSE LET up == upload_parquet(st, pt, s3_key, putFault)
            IN Result(up.store, up.puts, up.put # "ok", D(boxscore.calls, up.put))

\* the include_shot_zones block of run: one box-score call, then
\* self.load_shot_zones (an attribute the class does not define) for the
\* first player row with nonzero minutes
shot_zones_block(st, pt, game_id, fn, played) ==
    LET boxscore == api(fn)
        D == Happened(Detail("shot_zones", teams_key, st, "none", "none",
                             boxscore.calls, 0, "none"),
                      <<"call">>)
    IN Result(st, pt, boxscore.status = "raised" \/ played > 0, D)

----------------------------------------------------------------------------
(* NBAETLPipeline.run *)

At(p, i) == [pc |-> p, idx |-> i]

fan_out_short(i, n_games) ==
    IF i < n_games THEN At("load_team_game_stats", i) ELSE At("load_standings", 0)

\* the head of the for loop over game_ids, entered for the i-th game
fan_out(i, n_games) ==
    IF i <= n_games THEN At("load_team_game_stats", i) ELSE At("load_standings", 0)

PerGameSteps == {"load_team_game_stats", "load_player_game_stats",
                 "load_player_team_history", "shot_zones"}

\* run without its try/except around the per-game loads
run_abort(pos, i, raised, n_dates, n_games, include_shot_zones) ==
    IF raised THEN At("raised", 0)
    ELSE CASE pos = "load_teams" -> At("load_players", 0)
           [] pos = "load_players" -> At("extract_games", 0)
           [] pos = "extract_games" ->
                IF n_dates > 0 THEN At("load_games", 1) ELSE fan_out(1, n_games)
           [] pos = "load_games" ->
                IF i < n_dates THEN At("load_games", i + 1) ELSE fan_out(1, n_games)
           [] pos = "load_team_game_stats" -> At("load_player_game_stats", i)
           [] pos = "load_player_game_stats" -> At("load_player_team_history", i)
           [] pos = "load_player_team_history" ->
                IF include_shot_zones THEN At("shot_zones", i) ELSE fan_out(i + 1, n_games)
           [] pos = "shot_zones" -> fan_out(i + 1, n_games)
           [] pos = "load_standings" -> At("returned", 0)

\* run with a standings load that logs its failure instead of raising it
run_swallow_standings(pos, i, raised, n_dates, n_games, include_shot_zones) ==
    IF pos = "load_standings" THEN At("returned", 0)
    ELSE IF raised /\ pos \in PerGameSteps THEN fan_out(i + 1, n_games)
    ELSE run_abort(pos, i, raised, n_dates, n_games, include_shot_zones)

\* run with the shot-zone block entered whatever include_shot_zones is
run_always_shot(pos, i, raised, n_dates, n_games, include_shot_zones) ==
    IF pos = "load_player_team_history" /\ ~raised THEN At("shot_zones", i)
    ELSE IF raised /\ pos \in PerGameSteps THEN fan_out(i + 1, n_games)
    ELSE run_abort(pos, i, raised, n_dates, n_games, include_shot_zones)

\* Control flow of run: the position after the step at position pos (with
\* loop index i) has returned or raised
run(pos, i, raised, n_dates, n_games, include_shot_zones) ==
    CASE pos = "load_teams" ->
           IF raised THEN At("raised", 0) ELSE At("load_players", 0)
      [] pos = "load_players" ->
           IF raised THEN At("raised", 0) ELSE At("extract_games", 0)
      [] pos = "extract_games" ->
           IF raised THEN At("raised", 0)
           ELSE IF n_dates > 0 THEN At("load_games", 1) ELSE fan_out(1, n_games)
      [] pos = "load_games" ->
           IF raised THEN At("raised", 0)
           ELSE IF i < n_dates THEN At("load_games", i + 1) ELSE fan_out(1, n_games)
      [] pos = "load_team_game_stats" ->
           IF raised THEN fan_out(i + 1, n_games) ELSE At("load_player_game_stats", i)
      [] pos = "load_player_game_stats" ->
           IF raised THEN fan_out(i + 1, n_games) ELSE At("load_player_team_history", i)
      [] pos = "load_player_team_history" ->
           IF raised THEN fan_out(i + 1, n_games)
           ELSE IF include_shot_zones THEN At("shot_zones", i)
           ELSE fan_out(i + 1, n_games)
      [] pos = "shot_zones" -> fan_out(i + 1, n_games)
      [] pos = "load_standings" ->
           IF raised THEN At("raised", 0) ELSE At("returned", 0)

NoParams == [season |-> "2024-25", include_shot_zones |-> FALSE]

Outcome(raised) == IF raised THEN "raised" ELSE "ok"

\* The step at the current position ends with result r; arg is the date or
\* game it worked on, df the games of the run
Step(r, arg, df) ==
    LET nxt == run(pc, idx, r.raised, Len(game_dates(df)), Len(game_ids(df)),
                   params.include_shot_zones)
    IN /\ store' = r.store
       /\ puts' = r.puts
       /\ last' = LET sp == Spacing(last.open, TRUE, r.last.events)
                      put == IF r.last.put = "ok" THEN {r.last.key} ELSE {}
                      history == r.last.step = "load_player_team_history"
                  IN [r.last EXCEPT !.open = sp.open, !.spaced = sp.spaced,
                                    !.wrote = last.wrote \cup put,
                                    !.asked = IF history /\ r.last.calls > 0
                                              THEN last.asked \cup {<<r.last.key, arg>>}
                                              ELSE last.asked,
                                    !.snapshots = IF history /\ r.last.put = "ok"
                                                  THEN Append(last.snapshots, <<r.last.key, arg>>)
                                                  ELSE last.snapshots]
       /\ log' = Append(log, <<pc, arg, Outcome(r.raised)>>)
       /\ games' = df
       /\ pc' = nxt.pc
       /\ idx' = nxt.idx
       /\ UNCHANGED <<rx, source, budget, today, params, prev, fx, writers>>

\* pipeline.run(season, date_from, date_to, include_shot_zones) is called;
\* date_from and date_to are read by extract_games only and are drawn there
StartRun ==
    /\ pc \in {"idle", "returned", "raised"}
    /\ budget > 0
    /\ \E season \in Seasons, include_shot_zones \in BOOLEAN :
         params' = [season |-> season, include_shot_zones |-> include_shot_zones]
    /\ budget' = budget - 1
    /\ pc' = "load_teams"
    /\ idx' = 0
    /\ games' = <<>>
    /\ log' = <<>>
    /\ last' = NoStep
    /\ prev' = IF pc = "returned"
               THEN [params |-> params, games |-> games, ended |-> pc]
               ELSE [params |-> NoParams, games |-> <<>>, ended |-> pc]
    /\ UNCHANGED <<rx, source, store, puts, today, fx, writers>>

\* fn whose first invocation returns data
AnyFn == [i \in 1..DefaultRetries |-> IF i = 1 THEN "dataA" ELSE "ReadTimeout"]

\* A gated load ends at the first of: key found, first call raised, second
\* call raised, put.  What it does not get to is not drawn: a call or a put
\* the load does not reach has the one behaviour dflt, so that each course
\* of the load is drawn once
Drawn(S, dflt, reached) == IF reached THEN S ELSE {dflt}

Found(key, headFault) == s3_exists(store, key, headFault) = "True"

Returns(fn) == api(fn).status = "returned"

\* The steps of run, in an environment given by the faults storage calls
\* can meet (Faults) and the behaviours external calls can show (Fns)
teams_step(Faults) ==
    /\ pc = "load_teams"
    /\ \E putFault \in Faults :
         Step(load_teams(store, puts, putFault), 0, games)

players_step(Faults) ==
    /\ pc = "load_players"
    /\ \E putFault \in Faults :
         Step(load_players(store, puts, putFault), 0, games)

extract_step(Fns) ==
    /\ pc = "extract_games"
    /\ \E fn \in Fns, date_from \in {None} \cup Dates, date_to \in {None} \cup Dates :
         LET gf == api(fn)
             df == IF gf.status = "raised" THEN <<>>
                   ELSE extract_games(source, params.season, date_from, date_to)
             waits == IF gf.status = "raised" THEN 0 ELSE 1
             D == Detail("extract_games", teams_key, store, "none", "none",
                         gf.calls, waits, "none")
         IN Step(Result(store, puts, gf.status = "raised",
                        [D EXCEPT !.range = <<date_from, date_to>>,
                                  !.events = IF waits = 1 THEN <<"call", "wait">>
                                             ELSE <<"call">>]),
                 0, df)

games_step(Faults) ==
    /\ pc = "load_games"
    /\ LET game_date == game_dates(games)[idx]
           key == games_key(params.season, game_date)
       IN \E headFault \in Faults :
          \E putFault \in Drawn(Faults, "none", ~Found(key, headFault)) :
             Step(load_games_day(store, puts, params.season, game_date,
                                 headFault, putFault),
                  game_date, games)

team_game_stats_step(Faults, Fns) ==
    /\ pc = "load_team_game_stats"
    /\ LET game_id == game_ids(games)[idx]
           key == team_game_stats_key(params.season, game_id)
       IN \E headFault \in Faults :
          \E fn1 \in Drawn(Fns, AnyFn, ~Found(key, headFault)) :
          \E fn2 \in Drawn(Fns, AnyFn, ~Found(key, headFault) /\ Returns(fn1)) :
          \E putFault \in Drawn(Faults, "none", /\ ~Found(key, headFault)
                                                /\ Returns(fn1) /\ Returns(fn2)) :
             Step(load_team_game_stats(store, puts, game_id, params.season,
                                       headFault, fn1, fn2, putFault),
                  game_id, games)

player_game_stats_step(Faults, Fns) ==
    /\ pc = "load_player_game_stats"
    /\ LET game_id == game_ids(games)[idx]
           key == player_game_stats_key(params.season, game_id)
       IN \E headFault \in Faults :
          \E fn1 \in Drawn(Fns, AnyFn, ~Found(key, headFault)) :
          \E fn2 \in Drawn(Fns, AnyFn, ~Found(key, headFault) /\ Returns(fn1)) :
          \E putFault \in Drawn(Faults, "none", /\ ~Found(key, headFault)
                                                /\ Returns(fn1) /\ Returns(fn2)) :
             Step(load_player_game_stats(store, puts, game_id, params.season,
                                         headFault, fn1, fn2, putFault),
                  game_id, games)

player_team_history_step(Faults, Fns) ==
    /\ pc = "load_player_team_history"
    /\ LET game_id == game_ids(games)[idx]
           key == player_team_history_key(params.season, today)
       IN \E headFault \in Faults :
          \E fn \in Drawn(Fns, AnyFn, ~Found(key, headFault)) :
          \E putFault \in Drawn(Faults, "none", ~Found(key, headFault) /\ Returns(fn)) :
             Step(load_player_team_history(store, puts, game_id, params.season, today,
                                           headFault, fn, putFault),
                  game_id, games)

\* Played: the numbers of box-score rows with played minutes a game can have
shot_zones_step(Fns, Played) ==
    /\ pc = "shot_zones"
    /\ \E fn \in Fns, played \in Played :
         LET game_id == game_ids(games)[idx]
         IN Step(shot_zones_block(store, puts, game_id, fn, played), game_id, games)

standings_step(Faults, Fns) ==
    /\ pc = "load_standings"
    /\ \E fn \in Fns :
       \E putFault \in Drawn(Faults, "none", Returns(fn)) :
          Step(load_standings(store, puts, params.season, today, fn, putFault), 0, games)

\* The steps where storage calls can fail and external calls can time out
\* or fail
run_load_teams == teams_step(StorageFaults)

run_load_players == players_step(StorageFaults)

run_extract_games == extract_step(PipeFns)

run_load_games == games_step(StorageFaults)

run_load_team_game_stats == team_game_stats_step(StorageFaults, PipeFns)

run_load_player_game_stats == player_game_stats_step(StorageFaults, PipeFns)

run_load_player_team_history == player_team_history_step(StorageFaults, PipeFns)

run_shot_zones == shot_zones_step(PipeFns, 0..1)

run_load_standings == standings_step(StorageFaults, PipeFns)

\* midnight (UTC) passes
DayPasses ==
    /\ today < MaxDay
    /\ today' = today + 1
    /\ UNCHANGED <<rx, source, budget, store, puts, params, pc, games, idx, log, last,
                   prev, fx, writers>>

\* No stand-alone helper call has been made yet
NoHelper == [op |-> "none"]

\* A process that has not been started
NotStarted == [at |-> "off", left |-> 0, unanswered |-> FALSE]

\* An empty bucket, no run started yet
Fresh ==
    /\ rx = NoCall
    /\ store = {}
    /\ puts = [k \in GatedKeys |-> 0]
    /\ today = 1
    /\ params = NoParams
    /\ pc = "idle"
    /\ games = <<>>
    /\ idx = 0
    /\ log = <<>>
    /\ last = NoStep
    /\ prev = [params |-> NoParams, games |-> <<>>, ended |-> "idle"]
    /\ fx = NoHelper
    /\ writers = [w \in 1..NumWriters |-> NotStarted]

Next ==
    \/ StartRun
    \/ run_load_teams
    \/ run_load_players
    \/ run_extract_games
    \/ run_load_games
    \/ run_load_team_game_stats
    \/ run_load_player_game_stats
    \/ run_load_player_team_history
    \/ run_shot_zones
    \/ run_load_standings
    \/ DayPasses

\* One invocation of run on a season of NumGames games
Init == Fresh /\ source = SourceRows(1, NumGames) /\ budget = 1

Spec == Init /\ [][Next]_vars

\* Up to MaxRuns invocations of run, one after the other on one calendar
\* day, on a season that has one game so far
InitRerun == Fresh /\ source = SourceRows(1, 1) /\ budget = MaxRuns

NextSameDay ==
    \/ StartRun
    \/ run_load_teams
    \/ run_load_players
    \/ run_extract_games
    \/ run_load_games
    \/ run_load_team_game_stats
    \/ run_load_player_game_stats
    \/ run_load_player_team_history
    \/ run_shot_zones
    \/ run_load_standings

SpecRerun == InitRerun /\ [][NextSameDay]_vars

\* Up to MaxRuns invocations of run on a season of NumGames games, in which
\* the store answers every call, every request to the external source
\* returns data and every game has a player who played
NoFaults == {"none"}

\* fn returns data at its first invocation
ReturningFns == {fn \in PipeFns : fn[1] = "dataA"}

InitNominal == Fresh /\ source = SourceRows(1, NumGames) /\ budget = MaxRuns

NextNominal ==
    \/ StartRun
    \/ teams_step(NoFaults)
    \/ players_step(NoFaults)
    \/ extract_step(ReturningFns)
    \/ games_step(NoFaults)
    \/ team_game_stats_step(NoFaults, ReturningFns)
    \/ player_game_stats_step(NoFaults, ReturningFns)
    \/ player_team_history_step(NoFaults, ReturningFns)
    \/ shot_zones_step(ReturningFns, {1})
    \/ standings_step(NoFaults, ReturningFns)
    \/ DayPasses

SpecNominal == InitNominal /\ [][NextNominal]_vars

----------------------------------------------------------------------------
(* The pipeline run again and again by its scheduler over the whole season. *)
(* The requests and the put of the two stat loads of a game can fail; the   *)
(* other steps meet no fault and head_object is answered.                   *)

\* run is called again after the run before has ended
StartAgain ==
    /\ pc \in {"idle", "returned", "raised"}
    /\ \E season \in Seasons, include_shot_zones \in BOOLEAN :
         params' = [season |-> season, include_shot_zones |-> include_shot_zones]
    /\ pc' = "load_teams"
    /\ idx' = 0
    /\ games' = <<>>
    /\ log' = <<>>
    /\ last' = NoStep
    /\ prev' = IF pc = "returned"
               THEN [params |-> params, games |-> games, ended |-> pc]
               ELSE [params |-> NoParams, games |-> <<>>, ended |-> pc]
    /\ UNCHANGED <<rx, source, budget, store, puts, today, fx, writers>>

\* extract_games called without date_from and date_to
extract_season == extract_step(ReturningFns) /\ last'.range = <<None, None>>

\* the load of team stats (player stats) of game g in which every storage
\* call is answered and every request returns data
team_game_stats_succeeds(g) ==
    /\ pc = "load_team_game_stats"
    /\ game_ids(games)[idx] = g
    /\ Step(load_team_game_stats(store, puts, g, params.season, "none", AnyFn, AnyFn,
                                 "none"),
            g, games)

player_game_stats_succeeds(g) ==
    /\ pc = "load_player_game_stats"
    /\ game_ids(games)[idx] = g
    /\ Step(load_player_game_stats(store, puts, g, params.season, "none", AnyFn, AnyFn,
                                   "none"),
            g, games)

\* a request of a per-game load returns data or fails at its first attempt
HealFns == {fn \in PipeFns : fn[1] # "ReadTimeout"}

\* the start of a run and its steps other than the two stat loads
OtherSteps ==
    \/ StartAgain
    \/ teams_step(NoFaults)
    \/ players_step(NoFaults)
    \/ extract_season
    \/ games_step(NoFaults)
    \/ player_team_history_step(NoFaults, ReturningFns)
    \/ shot_zones_step(ReturningFns, {1})
    \/ standings_step(NoFaults, ReturningFns)

\* the stat loads of the current game: head_object is answered, each
\* request returns data or fails, the put succeeds or fails
heal_team_game_stats ==
    /\ pc = "load_team_game_stats"
    /\ \E fn1 \in HealFns, fn2 \in HealFns, putFault \in StorageFaults :
         Step(load_team_game_stats(store, puts, game_ids(games)[idx], params.season,
                                   "none", fn1, fn2, putFault),
              game_ids(games)[idx], games)

heal_player_game_stats ==
    /\ pc = "load_player_game_stats"
    /\ \E fn1 \in HealFns, fn2 \in HealFns, putFault \in StorageFaults :
         Step(load_player_game_stats(store, puts, game_ids(games)[idx], params.season,
                                     "none", fn1, fn2, putFault),
              game_ids(games)[idx], games)

HealNext ==
    \/ OtherSteps
    \/ heal_team_game_stats
    \/ heal_player_game_stats

\* The scheduler keeps running the pipeline, and for each game the calls of
\* its team-stat and player-stat loads succeed again and again
HealFairness ==
    /\ WF_vars(OtherSteps)
    /\ \A g \in 1..NumGames :
          /\ SF_vars(team_game_stats_succeeds(g))
          /\ SF_vars(player_game_stats_succeeds(g))

SpecHeal == Init /\ [][HealNext]_vars /\ HealFairness

----------------------------------------------------------------------------
(* Ingesting processes side by side on one bucket.  Each process calls      *)
(* load_team_game_stats for game 1 of the season MaxLoads times (one call   *)
(* per run of the pipeline); a process is interleaved with the others at    *)
(* its calls to the store and to the external source.                       *)

WriterSeason == CHOOSE s \in Seasons : TRUE

WriterKey == team_game_stats_key(WriterSeason, 1)

Started == {w \in 1..NumWriters : writers[w].at # "off"}

load_gate_open(exists) == "fetch"

\* "if self.s3_exists(s3_key): return"
load_gate(exists) == IF exists = "True" THEN "return" ELSE "fetch"

\* where a process goes when a call of load_team_game_stats has ended
Ended_load(p) ==
    IF p.left > 1 THEN [p EXCEPT !.at = "exists", !.left = p.left - 1]
    ELSE [p EXCEPT !.at = "done", !.left = 0]

\* n processes are started on the same season
launch ==
    /\ Started = {}
    /\ \E n \in 1..NumWriters :
         writers' = [w \in 1..NumWriters |->
                       IF w <= n
                       THEN [at |-> "exists", left |-> MaxLoads, unanswered |-> FALSE]
                       ELSE NotStarted]
    /\ UNCHANGED <<rx, source, budget, store, puts, today, params, pc, games, idx, log,
                   last, prev, fx>>

\* process w asks the store whether the key exists
writer_exists(w) ==
    /\ writers[w].at = "exists"
    /\ \E headFault \in StorageFaults :
         LET exists == s3_exists(store, WriterKey, headFault)
             p == [writers[w] EXCEPT
                     !.unanswered = @ \/ (headFault # "none" /\ WriterKey \in store)]
         IN writers' = [writers EXCEPT ![w] =
                          IF load_gate(exists) = "return" THEN Ended_load(p)
                          ELSE [p EXCEPT !.at = "fetch"]]
    /\ UNCHANGED <<rx, source, budget, store, puts, today, params, pc, games, idx, log,
                   last, prev, fx>>

\* process w requests the two box scores and merges them; an exception of
\* either request ends the call (run logs it and goes on)
writer_fetch(w) ==
    /\ writers[w].at = "fetch"
    /\ \E fn1, fn2 \in PipeFns :
         LET trad == api(fn1)
             adv == api(fn2)
         IN writers' = [writers EXCEPT ![w] =
                          IF trad.status = "returned" /\ adv.status = "returned"
                          THEN [@ EXCEPT !.at = "upload"]
                          ELSE Ended_load(@)]
    /\ UNCHANGED <<rx, source, budget, store, puts, today, params, pc, games, idx, log,
                   last, prev, fx>>

\* process w puts the merged table
writer_upload(w) ==
    /\ writers[w].at = "upload"
    /\ \E putFault \in StorageFaults :
         LET up == upload_parquet(store, puts, WriterKey, putFault)
         IN /\ store' = up.store
            /\ puts' = up.puts
    /\ writers' = [writers EXCEPT ![w] = Ended_load(@)]
    /\ UNCHANGED <<rx, source, budget, today, params, pc, games, idx, log, last, prev,
                   fx>>

exists_step == \E w \in 1..NumWriters : writer_exists(w)

fetch_step == \E w \in 1..NumWriters : writer_fetch(w)

upload_step == \E w \in 1..NumWriters : writer_upload(w)

WritersNext ==
    \/ launch
    \/ exists_step
    \/ fetch_step
    \/ upload_step

SpecWriters == Init /\ [][WritersNext]_vars

----------------------------------------------------------------------------
(* Helpers of the relational variant (NBA_ETL.py) and the shot-zone
   extractor of both variants, called on their own *)

\* Rows of a LeagueGameFinder result: the game id and whether MATCHUP holds
\* '@' are free, TEAM_ID and PTS tell the rows apart
PairingInputs ==
    UNION {[1..n -> [GAME_ID : 1..MaxGameId, at : BOOLEAN]] : n \in 0..MaxRows}

GameRows(f) ==
    [i \in DOMAIN f |-> [GAME_ID |-> f[i].GAME_ID, at |-> f[i].at,
                         TEAM_ID |-> i, PTS |-> 100 + i]]

\* games_dict[game_id]['teams']: the rows of the game in input order
etl_teams(rows, game_id) ==
    LET of_game(r) == r.GAME_ID = game_id
        group == SelectSeq(rows, of_game)
    IN [i \in 1..Len(group) |-> [team_id |-> group[i].TEAM_ID, pts |-> group[i].PTS,
                                 is_home |-> ~group[i].at]]

\* next((t for t in teams if ...), None), None being <<>>
etl_next(teams, home) ==
    LET wanted(t) == t.is_home = home
        found == SelectSeq(teams, wanted)
    IN IF found = <<>> THEN <<>> ELSE <<found[1]>>

\* the loop building data, over the game ids in insertion order; sizes are
\* the group sizes that pass the length test
RECURSIVE etl_games_data(_, _, _)
etl_games_data(rows, ids, sizes) ==
    IF ids = <<>> THEN <<>>
    ELSE LET game_id == Head(ids)
             teams == etl_teams(rows, game_id)
             home_team == etl_next(teams, TRUE)
             away_team == etl_next(teams, FALSE)
         IN (IF Len(teams) \in sizes /\ home_team # <<>> /\ away_team # <<>>
             THEN <<[game_id |-> game_id,
                     home_team_id |-> home_team[1].team_id,
                     away_team_id |-> away_team[1].team_id,
                     home_score |-> home_team[1].pts,
                     away_score |-> away_team[1].pts]>>
             ELSE <<>>)
            \o etl_games_data(rows, Tail(ids), sizes)

etl_load_games_atleast(rows) == etl_games_data(rows, game_ids(rows), 2..(Len(rows) + 2))

\* NBA_ETL.load_games: the tuples handed to the INSERT
etl_load_games(rows) == etl_games_data(rows, game_ids(rows), {2})

\* SELECT home_team_id, away_team_id FROM games WHERE game_id = %s, and
\* fetchone(): the row in a one-element sequence, or nothing
games_lookup(games_table, game_id) ==
    LET of_game(r) == r.game_id = game_id
    IN SelectSeq(games_table, of_game)

\* extract_and_load_team_game_stats: the rows written for a game whose box
\* score lists team_ids; nothing is written when the games table lacks the game
etl_team_game_stats(games_table, game_id, team_ids) ==
    LET result == games_lookup(games_table, game_id)
    IN IF result = <<>> THEN <<>>
       ELSE [i \in 1..Len(team_ids) |->
               [team_id |-> team_ids[i], game_id |-> game_id,
                is_home |-> team_ids[i] = result[1].home_team_id]]

\* extract_and_load_player_game_stats: the games table is not consulted.
\* Where the schema declares game_id a foreign key the INSERT of a game
\* without a games row raises, which the method catches and rolls back;
\* where it does not, the rows are committed
etl_player_game_stats(games_table, game_id, team_ids, foreign_key) ==
    IF foreign_key /\ games_lookup(games_table, game_id) = <<>> THEN <<>>
    ELSE [i \in 1..Len(team_ids) |->
            [game_id |-> game_id, team_id |-> team_ids[i], player_id |-> 10 * team_ids[i] + 1]]

\* the per-game loop of run_full_etl after load_games, on an empty database:
\* the three fact tables it leaves
RECURSIVE etl_stat_rows(_, _, _, _)
etl_stat_rows(rows, games_table, ids, foreign_key) ==
    IF ids = <<>> THEN [team_game_stats |-> <<>>, player_game_stats |-> <<>>]
    ELSE LET game_id == Head(ids)
             teams == etl_teams(rows, game_id)
             team_ids == [i \in 1..Len(teams) |-> teams[i].team_id]
             rest == etl_stat_rows(rows, games_table, Tail(ids), foreign_key)
         IN [team_game_stats |->
                 etl_team_game_stats(games_table, game_id, team_ids) \o rest.team_game_stats,
             player_game_stats |->
                 etl_player_game_stats(games_table, game_id, team_ids, foreign_key)
                     \o rest.player_game_stats]

etl_fact_tables(rows, foreign_key) ==
    LET games_table == etl_load_games(rows)
        stats == etl_stat_rows(rows, games_table, game_ids(rows), foreign_key)
    IN [games |-> games_table, team_game_stats |-> stats.team_game_stats,
        player_game_stats |-> stats.player_game_stats]

\* Values of row.get('MIN', '0:00'): the column absent, None, NaN, a text
\* without digits, the empty text, "MM:SS", a bare minute count, and
\* clock texts with an empty field or a third field
MinValues ==
    {[kind |-> k] : k \in {"absent", "None", "NaN", "DNP", "empty"}}
    \cup {[kind |-> "clock", mm |-> m, ss |-> x] : m \in 0..MaxMin, x \in 0..59}
    \cup {[kind |-> "count", mm |-> m] : m \in 0..MaxMin}
    \cup {[kind |-> "open_clock", mm |-> m] : m \in 0..MaxMin}
    \cup {[kind |-> "three_fields", mm |-> m] : m \in 0..MaxMin}

Num(n) == [tok |-> "num", n |-> n]

Word(w) == [tok |-> "word", w |-> w]

\* str(value).split(':'): the fields of the text, each a decimal number or
\* a word
min_fields(v) ==
    CASE v.kind = "absent" -> <<Num(0), Num(0)>>
      [] v.kind = "None" -> <<Word("None")>>
      [] v.kind = "NaN" -> <<Word("nan")>>
      [] v.kind = "DNP" -> <<Word("DNP")>>
      [] v.kind = "empty" -> <<Word("")>>
      [] v.kind = "clock" -> <<Num(v.mm), Num(v.ss)>>
      [] v.kind = "count" -> <<Num(v.mm)>>
      [] v.kind = "open_clock" -> <<Num(v.mm), Word("")>>
      [] v.kind = "three_fields" -> <<Num(v.mm), Num(0), Num(0)>>

\* float(text), in seconds: a number, nan for the word "nan", ValueError for
\* any other word
to_float(field) ==
    IF field.tok = "num" THEN [raised |-> FALSE, nan |-> FALSE, secs |-> 60 * field.n]
    ELSE IF field.w = "nan" THEN [raised |-> FALSE, nan |-> TRUE, secs |-> 0]
    ELSE [raised |-> TRUE, nan |-> FALSE, secs |-> 0]

\* round(minutes, 2) in hundredths of a minute, minutes given in seconds
\* (5/3 of a hundredth each, so no value lies half-way)
round2(secs) == (10 * secs + 3) \div 6

Minutes(hundredths) == [nan |-> FALSE, hundredths |-> hundredths]

NaNMinutes == [nan |-> TRUE, hundredths |-> 0]

\* the minutes parser of extract_and_load_player_game_stats and the
\* round(minutes, 2) of the tuple
parse_minutes(v) ==
    LET fields == min_fields(v)
    IN IF Len(fields) > 1
       THEN \* ':' in minutes_str
            IF Len(fields) # 2 THEN Minutes(0)
            ELSE LET mins == to_float(fields[1])
                     secs == to_float(fields[2])
                 IN IF mins.raised \/ secs.raised THEN Minutes(0)
                    ELSE IF mins.nan \/ secs.nan THEN NaNMinutes
                    ELSE Minutes(round2(mins.secs + secs.secs \div 60))
       ELSE IF fields[1] = Word("") THEN Minutes(0)
       ELSE LET minutes == to_float(fields[1])
            IN IF minutes.raised THEN Minutes(0)
               ELSE IF minutes.nan THEN NaNMinutes
               ELSE Minutes(round2(minutes.secs))

\* (SHOT_ZONE_BASIC, SHOT_ZONE_AREA, SHOT_ZONE_RANGE) in groupby order
ZoneTriples ==
    <<<<"Mid-Range", "Center(C)", "16-24 ft.">>,
      <<"Mid-Range", "Center(C)", "8-16 ft.">>,
      <<"Restricted Area", "Center(C)", "Less Than 8 ft.">>>>

\* Raw attempts of one player in one game: zone and SHOT_MADE_FLAG
ShotLists ==
    UNION {[1..n -> [zone : {ZoneTriples[z] : z \in DOMAIN ZoneTriples},
                     SHOT_MADE_FLAG : 0..1]] : n \in 0..MaxShots}

\* round(fgm / fga, 3) in thousandths (no quotient lies half-way while
\* fga < 16)
round3(fgm, fga) == (2000 * fgm + fga) \div (2 * fga)

RECURSIVE zone_stats(_, _)
zone_stats(shots, z) ==
    IF z > Len(ZoneTriples) THEN <<>>
    ELSE LET in_zone(a) == a.zone = ZoneTriples[z]
             made(a) == a.zone = ZoneTriples[z] /\ a.SHOT_MADE_FLAG = 1
             fga == Len(SelectSeq(shots, in_zone))
             fgm == Len(SelectSeq(shots, made))
         IN (IF fga = 0 THEN <<>>
             ELSE <<[zone |-> ZoneTriples[z], fgm |-> fgm, fga |-> fga,
                     fg_pct |-> round3(fgm, fga)]>>)
            \o zone_stats(shots, z + 1)

\* NBA_ETL.extract_and_load_shot_zones once the shot chart is fetched
etl_extract_and_load_shot_zones(shots) ==
    IF Len(shots) = 0 THEN [error |-> "none", written |-> FALSE, rows |-> <<>>]
    ELSE [error |-> "none", written |-> TRUE, rows |-> zone_stats(shots, 1)]

\* NBA_ETL_Safe.extract_and_load_shot_zones: shotchartdetail is not
\* imported, the NameError of its first statement is caught and logged
safe_extract_and_load_shot_zones(shots) ==
    [error |-> "NameError", written |-> FALSE, rows |-> <<>>]

\* A box-score table as the join keys of its rows, in order: (GAME_ID,
\* TEAM_ID) of a team table, PLAYER_ID of a player table
StatTables == UNION {[1..n -> 1..MaxStatKeys] : n \in 0..MaxStatRows}

\* no advanced row: the advanced columns of the merged row are NaN
NoMatch == 0

RECURSIVE pd_merge_from(_, _, _, _)
pd_merge_from(i, left, right, how) ==
    IF i > Len(left) THEN <<>>
    ELSE LET js == {j \in 1..Len(right) : right[j] = left[i]}
             rows == IF js = {}
                     THEN IF how = "left"
                          THEN <<[key |-> left[i], trad |-> i, adv |-> NoMatch]>>
                          ELSE <<>>
                     ELSE [n \in 1..Cardinality(js) |->
                             [key |-> left[i], trad |-> i, adv |-> sorted(js)[n]]]
         IN rows \o pd_merge_from(i + 1, left, right, how)

\* DataFrame.merge / pd.merge on the join keys: how = "left" keeps every
\* left row, how = "inner" (the default of pandas) the matched ones
pd_merge(left, right, how) == pd_merge_from(1, left, right, how)

Loaders == {"NBA_ETL_Safe.load_team_game_stats", "NBA_ETL_Safe.load_player_game_stats",
            "NBA_ETL.extract_and_load_team_game_stats",
            "NBA_ETL.extract_and_load_player_game_stats"}

\* the how argument each loader passes; NBA_ETL's team loader passes none
merge_how(loader) ==
    IF loader = "NBA_ETL.extract_and_load_team_game_stats" THEN "inner" ELSE "left"

merged_df(loader, trad, adv) == pd_merge(trad, adv, merge_how(loader))

\* The INSERT ... ON CONFLICT statements of NBA_ETL.py: the columns of the
\* table, the conflict target and the columns of DO UPDATE SET
games_upsert ==
    [table |-> "games",
     cols |-> {"game_id", "game_date", "season", "home_team_id", "away_team_id",
               "home_score", "away_score", "status"},
     target |-> {"game_id"},
     update |-> {"home_score", "away_score", "status"}]

team_game_stats_upsert ==
    [table |-> "team_game_stats",
     cols |-> {"team_id", "game_id", "is_home", "pts", "ast", "reb", "oreb", "dreb",
               "stl", "blk", "tov", "pf", "fgm", "fga", "fg_pct", "fg3m", "fg3a",
               "fg3_pct", "ftm", "fta", "ft_pct", "plus_minus", "pace", "off_rating",
               "def_rating", "net_rating"},
     target |-> {"team_id", "game_id"},
     update |-> {"pts", "ast", "reb", "plus_minus", "pace", "off_rating", "def_rating",
                 "net_rating"}]

conference_standings_upsert ==
    [table |-> "conference_standings",
     cols |-> {"snapshot_date", "season", "team_id", "conference", "division",
               "conference_rank", "division_rank", "wins", "losses", "win_pct",
               "games_back", "home_record", "road_record", "streak", "last_10"},
     target |-> {"snapshot_date", "team_id"},
     update |-> {"wins", "losses", "win_pct", "conference_rank", "games_back", "streak",
                 "last_10"}]

teams_upsert ==
    [table |-> "teams",
     cols |-> {"team_id", "team_name", "abbreviation", "city", "conference", "division"},
     target |-> {"team_id"},
     update |-> {"team_name", "abbreviation", "city", "conference", "division"}]

players_upsert ==
    [table |-> "players",
     cols |-> {"player_id", "first_name", "last_name", "full_name", "position", "height",
               "weight", "birth_date", "country", "draft_year"},
     target |-> {"player_id"},
     update |-> {"first_name", "last_name", "full_name", "position", "height", "weight",
                 "birth_date", "country", "draft_year"}]

\* the statements of load_teams, load_players and load_games
EntityUpserts == {teams_upsert, players_upsert, games_upsert}

Upserts == {games_upsert, team_game_stats_upsert, conference_standings_upsert}

\* a plain INSERT into a table without a unique key
execute_upsert_insert(rows, row, u) == rows \cup {row}

Conflicts(r, row, u) == \A c \in u.target : r[c] = row[c]

execute_upsert_replace(rows, row, u) ==
    {r \in rows : ~Conflicts(r, row, u)} \cup {row}

\* One row through INSERT ... ON CONFLICT (target) DO UPDATE SET c =
\* EXCLUDED.c for c in update: inserted when no row has its key, else the
\* row with its key takes the new values of the update columns
execute_upsert(rows, row, u) ==
    IF \E r \in rows : Conflicts(r, row, u)
    THEN {IF Conflicts(r, row, u)
          THEN [c \in u.cols |-> IF c \in u.update THEN row[c] ELSE r[c]]
          ELSE r : r \in rows}
    ELSE rows \cup {row}

\* execute_batch(cursor, insert_query, data): the statement once per tuple
\* of data, in order
RECURSIVE execute_batch(_, _, _)
execute_batch(rows, data, u) ==
    IF data = <<>> THEN rows
    ELSE execute_batch(execute_upsert(rows, Head(data), u), Tail(data), u)

\* A row of the table of u: key k in the conflict target, "new" in the
\* columns of differ and "old" in the others
TableRow(u, k, differ) ==
    [c \in u.cols |-> IF c \in u.target THEN k ELSE IF c \in differ THEN "new" ELSE "old"]

\* The columns in which a reloaded row differs from the stored one: all of
\* them or one of them
Differences(u) == {u.cols \ u.target} \cup {{c} : c \in u.cols \ u.target}

\* The tuples a load may hand over: of key k1 or k2, equal to the stored
\* row, different in the update columns, in the other columns, or in all
BatchRows(u) ==
    {TableRow(u, k, differ) :
        k \in {"k1", "k2"},
        differ \in {{}, u.update, u.cols \ (u.target \cup u.update), u.cols \ u.target}}

Batches(u) == UNION {[1..n -> BatchRows(u)] : n \in 0..MaxBatch}

\* Dates of the relational variant are day numbers; as text ('%Y-%m-%d',
\* zero padded) they are compared field by field, here month and day of a
\* calendar whose months have DaysPerMonth days
DaysPerMonth == 2

strftime(n) == <<(n - 1) \div DaysPerMonth + 1, ((n - 1) % DaysPerMonth) + 1>>

\* date_from / date_to not given (None is falsy)
NoDate == <<>>

\* a <= b on date strings
StrLE(a, b) == a[1] < b[1] \/ (a[1] = b[1] /\ a[2] <= b[2])

\* LeagueGameFinder rows of the season: game g, played on day dates[g], one
\* row per team
EtlRows(dates) ==
    [i \in 1..(2 * Len(dates)) |->
        [GAME_ID |-> (i + 1) \div 2, GAME_DATE |-> strftime(dates[(i + 1) \div 2])]]

\* "if date_from: ... >= date_from; if date_to: ... <= date_to"
etl_date_filter(games_df, date_from, date_to) ==
    LET keep(r) == /\ (date_from # NoDate => StrLE(date_from, r.GAME_DATE))
                   /\ (date_to # NoDate => StrLE(r.GAME_DATE, date_to))
    IN SelectSeq(games_df, keep)

\* The places where run_full_etl can meet an exception
EtlFailures == {"connect", "teams", "players", "extract_games", "load_games",
                "team_game_stats", "player_game_stats", "shot_zones_query",
                "shot_zones", "standings"}

\* run_full_etl: whether it returns or raises, the games whose stats it
\* asks for, and what became of the standings step.  The stat, shot-zone
\* and standings methods catch Exception themselves, log and return
run_full_etl(rows, date_from, date_to, include_shot_zones, fails) ==
    LET games_df == etl_date_filter(rows, date_from, date_to)
        unique_games == unique([i \in 1..Len(games_df) |-> games_df[i].GAME_ID])
        early == fails \cap {"connect", "teams", "players", "extract_games", "load_games"}
    IN IF early # {}
       THEN [result |-> "raised", processed |-> <<>>, standings |-> "not reached"]
       ELSE IF include_shot_zones /\ "shot_zones_query" \in fails
       THEN [result |-> "raised", processed |-> unique_games, standings |-> "not reached"]
       ELSE [result |-> "returned", processed |-> unique_games,
             standings |-> IF "standings" \in fails THEN "failed" ELSE "loaded"]

\* the failures of fails that reach the except clause of run_full_etl
Uncaught(include_shot_zones, fails) ==
    fails \cap ({"connect", "teams", "players", "extract_games", "load_games"}
                \cup (IF include_shot_zones THEN {"shot_zones_query"} ELSE {}))

\* self.conn when run_full_etl is called: None on a new pipeline object, the
\* closed connection of the run before on a reused one
ConnStates == {"None", "closed"}

\* rollback() on a connection that is closed or lost raises, on a live one
\* it returns
rollback(conn) == IF conn = "open" THEN "done" ELSE "raises"

\* self.conn when the except clause is entered: connect() that fails leaves
\* it as it was, a step that fails either leaves the connection open or
\* has lost it
conn_at_except(conn, lost, uncaught) ==
    IF "connect" \in uncaught THEN conn
    ELSE IF lost THEN "lost" ELSE "open"

\* try / except / finally of run_full_etl: the connection calls it makes,
\* in order, and what reaches its caller
run_full_etl_exit(include_shot_zones, fails, conn, lost) ==
    LET uncaught == Uncaught(include_shot_zones, fails)
        now == conn_at_except(conn, lost, uncaught)
    IN IF uncaught = {}
       THEN [calls |-> <<"connect", "disconnect">>, caller |-> "return"]
       ELSE IF now = "None"
       THEN [calls |-> <<"connect", "disconnect">>, caller |-> "the exception"]
       ELSE [calls |-> <<"connect", "rollback", "disconnect">>,
             caller |-> IF rollback(now) = "raises" THEN "the exception of rollback"
                        ELSE "the exception"]

run_incremental_update_one_sided(rows, now1, now2, days_back, fails) ==
    LET date_from == strftime(now1 - days_back)
    IN [date_from |-> date_from, date_to |-> NoDate,
        out |-> run_full_etl(rows, date_from, NoDate, FALSE, fails)]

\* run_incremental_update: now1 and now2 are the days of its two readings
\* of datetime.now()
run_incremental_update(rows, now1, now2, days_back, fails) ==
    LET date_from == strftime(now1 - days_back)
        date_to == strftime(now2)
    IN [date_from |-> date_from, date_to |-> date_to,
        out |-> run_full_etl(rows, date_from, date_to, FALSE, fails)]

\* The days the games of the season were played on
EtlSeasons == [1..NumEtlGames -> 1..MaxClock]

\* At most one place fails in a run
EtlFaults == {{}} \cup {{f} : f \in EtlFailures}

----------------------------------------------------------------------------
(* get_opponent_points of NBA_Predict.py *)

\* the team asked about
OppTeam == 1

\* A LeagueGameFinder frame: GAME_ID and TEAM_ID of its rows are free, the
\* game date is later for a larger game id, PTS tells the rows apart
OppFrames ==
    UNION {[1..k -> [GAME_ID : 1..MaxOppGames, TEAM_ID : {OppTeam, OppTeam + 1}]] :
              k \in 0..MaxFinderRows}

OppRows(f) ==
    [i \in DOMAIN f |-> [GAME_ID |-> f[i].GAME_ID, TEAM_ID |-> f[i].TEAM_ID,
                         GAME_DATE |-> f[i].GAME_ID, PTS |-> 100 + i]]

\* A TeamGameLog frame: one row a game, in any order
OppSchedules ==
    {s \in UNION {[1..k -> 1..MaxOppGames] : k \in 0..MaxOppGames} :
        \A i \in DOMAIN s, j \in DOMAIN s : s[i] = s[j] => i = j}

\* df.sort_values("GAME_DATE", ascending=False): rows of date d and later
RECURSIVE sort_values_desc(_, _)
sort_values_desc(df, d) ==
    IF d > MaxOppGames THEN <<>>
    ELSE LET on_d(r) == r.GAME_DATE = d
         IN sort_values_desc(df, d + 1) \o SelectSeq(df, on_d)

\* df.head(n) for n >= 0
head(df, n) == SubSeq(df, 1, IF n < Len(df) THEN n ELSE Len(df))

\* frame[frame["TEAM_ID"] == team_id] and frame[frame["TEAM_ID"] != team_id]
of_team(frame, own) ==
    LET wanted(r) == (r.TEAM_ID = OppTeam) = own
    IN SelectSeq(frame, wanted)

of_game(frame, gid) ==
    LET wanted(r) == r.GAME_ID = gid
    IN SelectSeq(frame, wanted)

\* same_game.shape[0] < 2
too_few_rows(same_game) == Len(same_game) < 2

\* the dict appended to results; game is the game id it was built for,
\* which the dict itself does not hold.  int(...get("PTS", 0)) raises on NaN
result_row(gid, team_row, opp_row) ==
    [game |-> gid, TEAM_PTS |-> team_row.PTS, OPP_PTS |-> opp_row.PTS]

Built(results) == [error |-> "none", results |-> results]

Raised(error) == [error |-> error, results |-> <<>>]

\* the loop over the sorted LeagueGameFinder frame, from row i on
RECURSIVE finder_loop(_, _, _, _, _, _)
finder_loop(df, i, n, seen, results, valid) ==
    IF i > Len(df) THEN Built(results)
    ELSE LET gid == df[i].GAME_ID
             same_game == of_game(df, gid)
             own == of_team(same_game, TRUE)
             opp == of_team(same_game, FALSE)
             \* .iloc[0] of an empty selection raises, the inner except
             \* takes the first two rows
             team_row == IF own = <<>> \/ opp = <<>> THEN same_game[1] ELSE own[1]
             opp_row == IF own = <<>> \/ opp = <<>> THEN same_game[2] ELSE opp[1]
         IN IF gid \in seen \/ Len(results) >= n
            THEN finder_loop(df, i + 1, n, seen, results, valid)
            ELSE IF too_few_rows(same_game)
            THEN finder_loop(df, i + 1, n, seen, results, valid)
            ELSE IF ~valid THEN Raised("ValueError")
            ELSE finder_loop(df, i + 1, n, seen \cup {gid},
                             Append(results, result_row(gid, team_row, opp_row)), valid)

\* the loop over the head of the team's game log, from row i on; game_rows
\* is what LeagueGameFinder() without arguments returns
RECURSIVE schedule_loop(_, _, _, _, _)
schedule_loop(schedule, i, game_rows, results, valid) ==
    IF i > Len(schedule) THEN Built(results)
    ELSE LET gid == schedule[i].GAME_ID
             same_game == of_game(game_rows, gid)
             own == of_team(same_game, TRUE)
             opp == of_team(same_game, FALSE)
         IN IF game_rows = <<>> \/ too_few_rows(same_game)
            THEN schedule_loop(schedule, i + 1, game_rows, results, valid)
            ELSE IF own = <<>> \/ opp = <<>> THEN Raised("IndexError")
            ELSE IF ~valid THEN Raised("ValueError")
            ELSE schedule_loop(schedule, i + 1, game_rows,
                               Append(results, result_row(gid, own[1], opp[1])), valid)

\* no except clause: what the body raises reaches the caller
try_bare(body, path) == [path |-> path, error |-> body.error, results |-> body.results]

\* try: body / except Exception: print, return pd.DataFrame()
try_except(body, path) ==
    IF body.error # "none"
    THEN [path |-> "error", error |-> "none", results |-> <<>>]
    ELSE [path |-> path, error |-> "none", results |-> body.results]

\* get_opponent_points(team_id, n): df is the first LeagueGameFinder frame
\* that is not empty (with the season, then without), schedule what
\* get_team_schedule returns, valid whether the PTS read are numbers
get_opponent_points(n, df, schedule, game_rows, valid) ==
    IF df = <<>>
    THEN IF schedule = <<>>
         THEN try_except(Built(<<>>), "no schedule")
         ELSE try_except(schedule_loop(head(sort_values_desc(
                                                [i \in DOMAIN schedule |->
                                                   [GAME_ID |-> schedule[i],
                                                    GAME_DATE |-> schedule[i]]], 1), n)
                                         , 1, game_rows, <<>>, valid),
                         "team game log")
    ELSE try_except(finder_loop(sort_values_desc(df, 1), 1, n, {}, <<>>, valid),
                    "league finder")

opponent_points ==
    /\ fx = NoHelper
    /\ \E n \in 0..MaxN, f \in OppFrames, valid \in BOOLEAN :
       \E schedule \in Drawn(OppSchedules, <<>>, f = <<>>) :
       \E g \in Drawn(OppFrames, <<>>, schedule # <<>>) :
         fx' = [op |-> "get_opponent_points", n |-> n, df |-> OppRows(f),
                schedule |-> schedule, game_rows |-> OppRows(g), valid |-> valid,
                out |-> get_opponent_points(n, OppRows(f), schedule, OppRows(g), valid)]
    /\ UNCHANGED runVars

\* One call of a helper on its own
pair_games ==
    /\ fx = NoHelper
    /\ \E f \in PairingInputs :
         fx' = [op |-> "load_games", in |-> GameRows(f),
                out |-> etl_load_games(GameRows(f))]
    /\ UNCHANGED runVars

minutes_of_row ==
    /\ fx = NoHelper
    /\ \E v \in MinValues :
         fx' = [op |-> "minutes", in |-> v, out |-> parse_minutes(v)]
    /\ UNCHANGED runVars

shot_zones_of_player ==
    /\ fx = NoHelper
    /\ \E shots \in ShotLists :
         \/ fx' = [op |-> "shot_zones", variant |-> "NBA_ETL", in |-> shots,
                   out |-> etl_extract_and_load_shot_zones(shots)]
         \/ fx' = [op |-> "shot_zones", variant |-> "NBA_ETL_Safe", in |-> shots,
                   out |-> safe_extract_and_load_shot_zones(shots)]
    /\ UNCHANGED runVars

merge_box_scores ==
    /\ fx = NoHelper
    /\ \E loader \in Loaders, trad \in StatTables, adv \in StatTables :
         fx' = [op |-> "merge", loader |-> loader, trad |-> trad, adv |-> adv,
                out |-> merged_df(loader, trad, adv)]
    /\ UNCHANGED runVars

\* a row is loaded into a table that holds a row with its key (stored),
\* a row with another key (other), both or neither
upsert_row ==
    /\ fx = NoHelper
    /\ \E u \in Upserts, stored \in BOOLEAN, other \in BOOLEAN :
       \E differ \in Differences(u) :
         LET before == (IF stored THEN {TableRow(u, "k1", {})} ELSE {})
                       \cup (IF other THEN {TableRow(u, "k2", {})} ELSE {})
             row == TableRow(u, "k1", differ)
         IN fx' = [op |-> "upsert", u |-> u, before |-> before, row |-> row,
                   out |-> execute_upsert(before, row, u)]
    /\ UNCHANGED runVars

\* load_teams, load_players or load_games (its INSERT, once the tuples are
\* built) on a table, and once more with the same tuples
load_entities ==
    /\ fx = NoHelper
    /\ \E u \in EntityUpserts, stored \in BOOLEAN, other \in BOOLEAN :
       \E data \in Batches(u) :
         LET before == (IF stored THEN {TableRow(u, "k1", {})} ELSE {})
                       \cup (IF other THEN {TableRow(u, "k2", {})} ELSE {})
             once == execute_batch(before, data, u)
         IN fx' = [op |-> "load_entities", u |-> u, before |-> before, data |-> data,
                   out |-> once, again |-> execute_batch(once, data, u)]
    /\ UNCHANGED runVars

\* run_full_etl is called with explicit bounds
full_etl ==
    /\ fx = NoHelper
    /\ \E dates \in EtlSeasons, fails \in EtlFaults, include_shot_zones \in BOOLEAN :
       \E date_from \in {NoDate} \cup {strftime(n) : n \in 1..MaxClock} :
       \E date_to \in {NoDate} \cup {strftime(n) : n \in 1..MaxClock} :
       \E conn \in Drawn(ConnStates, "None", "connect" \in fails) :
       \E lost \in Drawn(BOOLEAN, FALSE,
                          Uncaught(include_shot_zones, fails) \ {"connect"} # {}) :
         fx' = [op |-> "full_etl", dates |-> dates, fails |-> fails,
                include_shot_zones |-> include_shot_zones,
                date_from |-> date_from, date_to |-> date_to,
                conn |-> conn, lost |-> lost,
                out |-> run_full_etl(EtlRows(dates), date_from, date_to,
                                     include_shot_zones, fails),
                exit |-> run_full_etl_exit(include_shot_zones, fails, conn, lost)]
    /\ UNCHANGED runVars

\* run_incremental_update is called; midnight may pass between its two
\* readings of the clock
incremental_update ==
    /\ fx = NoHelper
    /\ \E dates \in EtlSeasons, fails \in EtlFaults, days_back \in (-1)..MaxDaysBack :
       \E now1 \in 1..MaxClock, now2 \in 1..MaxClock :
         /\ now2 \in {now1, now1 + 1}
         /\ LET r == run_incremental_update(EtlRows(dates), now1, now2, days_back, fails)
            IN fx' = [op |-> "incremental", dates |-> dates, fails |-> fails,
                      now1 |-> now1, now2 |-> now2, days_back |-> days_back,
                      date_from |-> r.date_from, date_to |-> r.date_to, out |-> r.out]
    /\ UNCHANGED runVars

load_facts ==
    /\ fx = NoHelper
    /\ \E f \in PairingInputs, foreign_key \in BOOLEAN :
         fx' = [op |-> "load_facts", in |-> GameRows(f), foreign_key |-> foreign_key,
                out |-> etl_fact_tables(GameRows(f), foreign_key)]
    /\ UNCHANGED runVars

HelperNext ==
    \/ pair_games
    \/ minutes_of_row
    \/ shot_zones_of_player
    \/ merge_box_scores
    \/ upsert_row
    \/ full_etl
    \/ incremental_update
    \/ load_facts
    \/ load_entities
    \/ opponent_points

SpecHelpers == Init /\ [][HelperNext]_vars

\* The retry executor on its own, for every retries and base_delay
RetryNext == Execute /\ UNCHANGED pipeVars

SpecRetry == Init /\ [][RetryNext]_vars

----------------------------------------------------------------------------
(* Properties *)

GatedSteps == {"load_games", "load_team_game_stats", "load_player_game_stats",
               "load_player_team_history"}

FatalSteps == {"load_teams", "load_players", "extract_games", "load_games",
               "load_standings"}

Logged(step, arg, out) == \E i \in 1..Len(log) : log[i] = <<step, arg, out>>

Attempted(step, arg) == \E i \in 1..Len(log) : log[i][1] = step /\ log[i][2] = arg

Ended == pc \in {"returned", "raised"}

\* the executor was called with fn timing out k times and then returning
TimesOutThenReturns(k) ==
    /\ rx.res.status # "none"
    /\ rx.retries >= 1
    /\ k < rx.retries
    /\ \A i \in 1..k : rx.fn[i] = "ReadTimeout"
    /\ rx.fn[k + 1] \in Values

\* the executor was called with fn timing out on every invocation
AlwaysTimesOut ==
    /\ rx.res.status # "none"
    /\ rx.retries >= 1
    /\ \A i \in 1..rx.retries : rx.fn[i] = "ReadTimeout"

\* the executor was called with fn timing out k - 1 times and then failing
\* with an error that is not the timeout
FailsOtherwiseAt(k) ==
    /\ rx.res.status # "none"
    /\ k <= rx.retries
    /\ \A i \in 1..(k - 1) : rx.fn[i] = "ReadTimeout"
    /\ rx.fn[k] = "OtherError"

\* C1: every existence-gated partition key receives at most one successful
\* put_object over all runs, whatever the external and storage calls do.
C1_AtMostOnePutPerGatedKey == \A k \in GatedKeys : puts[k] <= 1

\* C2: a gated load called twice in sequence makes exactly one storage
\* write: the call that finds its key absent and succeeds puts it once, and
\* a call on a key that an earlier call has written, with the store
\* answering its head_object, observes exists = True, makes no external call
\* and no put.
C2_SecondCallWritesNothing ==
    [][(log' # log /\ last'.step \in GatedSteps /\ last'.headFault = "none")
       => IF last'.key \in store
          THEN /\ last'.exists = "True" /\ last'.put = "none" /\ last'.calls = 0
               /\ puts' = puts /\ store' = store
          ELSE /\ last'.exists = "False"
               /\ last'.put = "ok" =>
                     /\ store' = store \cup {last'.key}
                     /\ puts' = [puts EXCEPT ![last'.key] = @ + 1]
               /\ last'.put # "ok" => (puts' = puts /\ store' = store)]_vars

C2_Witness ==
    /\ last.step = "load_team_game_stats"
    /\ last.existed
    /\ last.exists = "True"
    /\ puts[last.key] = 1
    /\ budget = 0

\* C3: with retries >= 1, if fn times out exactly k < retries times and then
\* succeeds, the executor returns fn's value after exactly k + 1 invocations
\* and exactly k backoff sleeps.
C3_RetrySuccessBound ==
    \A k \in 0..(MaxRetries - 1) :
        TimesOutThenReturns(k)
        => /\ rx.res.status = "returned"
           /\ rx.res.value = rx.fn[k + 1]
           /\ rx.res.calls = k + 1
           /\ Len(rx.res.sleeps) = k

C3_Witness ==
    /\ TimesOutThenReturns(2)
    /\ rx.res.status = "returned"
    /\ rx.res.calls = 3

\* C4: with retries >= 1, if fn always times out it is invoked exactly
\* retries times, the timeout is then raised, nothing is returned and there
\* is no sleep after the last attempt (retries - 1 sleeps in all).
C4_RetryExhaustion ==
    AlwaysTimesOut
    => /\ rx.res.status = "raised"
       /\ rx.res.value = "ReadTimeout"
       /\ rx.res.calls = rx.retries
       /\ Len(rx.res.sleeps) = rx.retries - 1

C4_Witness ==
    /\ AlwaysTimesOut
    /\ rx.retries = 3
    /\ rx.res.status = "raised"
    /\ rx.res.calls = 3

\* C5: an error of fn that is not the timeout is raised to the caller on the
\* attempt it occurs on, with no further invocation and no sleep after it.
C5_NonTransientPropagates ==
    \A k \in 1..MaxRetries :
        FailsOtherwiseAt(k)
        => /\ rx.res.status = "raised"
           /\ rx.res.value = "OtherError"
           /\ rx.res.calls = k
           /\ Len(rx.res.sleeps) = k - 1

C5_Witness ==
    /\ FailsOtherwiseAt(2)
    /\ rx.res.status = "raised"
    /\ rx.res.calls = 2

\* C6: s3_exists reports False only for "not found": when head_object fails
\* for another reason the failure is surfaced, not answered with False.
C6_ExistsSurfacesFaults ==
    (last.step \in GatedSteps /\ last.headFault = "fault") => last.exists # "False"

Phase(step) ==
    CASE step \in {"load_teams", "load_players"} -> 1
      [] step \in {"extract_games", "load_games"} -> 2
      [] step \in PerGameSteps -> 3
      [] step = "load_standings" -> 4

StepAt(p) == IF p \in FatalSteps \cup PerGameSteps THEN Phase(p) ELSE 0

\* C7: in one run both dimension loads complete before game discovery
\* starts, discovery and every GameDaySnapshot write complete before the
\* first per-game load starts, and the standings load starts only after the
\* loads of every discovered game have finished.
C7_RunOrdering ==
    /\ \A i, j \in 1..Len(log) : i < j => Phase(log[i][1]) <= Phase(log[j][1])
    /\ \A i \in 1..Len(log) : StepAt(pc) # 0 => Phase(log[i][1]) <= StepAt(pc)
    /\ StepAt(pc) >= 2 => Logged("load_teams", 0, "ok") /\ Logged("load_players", 0, "ok")
    /\ StepAt(pc) >= 3 =>
          /\ Logged("extract_games", 0, "ok")
          /\ \A d \in {games[i].GAME_DATE : i \in 1..Len(games)} :
                Logged("load_games", d, "ok")
    /\ StepAt(pc) = 4 =>
          \A g \in {games[i].GAME_ID : i \in 1..Len(games)} :
              Attempted("load_team_game_stats", g)

C7_Witness ==
    /\ pc = "load_standings"
    /\ Attempted("load_team_game_stats", 1)
    /\ Attempted("load_team_game_stats", 2)
    /\ Logged("load_games", 1, "ok")
    /\ Logged("load_games", 2, "ok")

\* C8: if a per-game load of game g raises, the run is not aborted: every
\* game after g in discovery order is still attempted and the standings
\* load is still invoked.
C8_GameFailureIsolated ==
    /\ \A i \in 1..Len(log) :
          (log[i][1] \in PerGameSteps /\ log[i][3] = "raised")
          => (i < Len(log) \/ pc \in PerGameSteps \cup {"load_standings"})
    /\ Ended =>
          \A i \in 1..Len(log) :
              (log[i][1] \in PerGameSteps /\ log[i][3] = "raised")
              => /\ Attempted("load_standings", 0)
                 /\ \A g \in {games[j].GAME_ID : j \in 1..Len(games)} :
                       Attempted("load_team_game_stats", g)

C8_Witness ==
    /\ Ended
    /\ Logged("load_team_game_stats", 1, "raised")
    /\ Attempted("load_team_game_stats", 2)
    /\ Attempted("load_standings", 0)

\* C9: a failure of one entity load for game g skips only that entity: the
\* remaining entity loads of game g are still attempted before the loop
\* moves to the next game.
C9_EntityFailureIsolated ==
    \A i \in 1..(Len(log) - 1) :
        /\ (log[i][1] = "load_team_game_stats" /\ log[i][3] = "raised")
           => (log[i + 1][1] = "load_player_game_stats" /\ log[i + 1][2] = log[i][2])
        /\ (log[i][1] = "load_player_game_stats" /\ log[i][3] = "raised")
           => (log[i + 1][1] = "load_player_team_history" /\ log[i + 1][2] = log[i][2])

FatalStepsSucceeded ==
    /\ Logged("load_teams", 0, "ok")
    /\ Logged("load_players", 0, "ok")
    /\ Logged("extract_games", 0, "ok")
    /\ \A d \in {games[i].GAME_DATE : i \in 1..Len(games)} : Logged("load_games", d, "ok")
    /\ Logged("load_standings", 0, "ok")

\* C10: the run returns normally if and only if the dimension loads, game
\* discovery with its GameDaySnapshot writes and the standings load all
\* succeed, whatever the per-game steps did; a failure of one of those
\* steps is raised to the caller of run.
C10_TerminalCondition ==
    /\ Ended => (pc = "returned" <=> FatalStepsSucceeded)
    /\ \A i \in 1..Len(log) :
          (log[i][1] \in FatalSteps /\ log[i][3] = "raised")
          => (pc = "raised" /\ i = Len(log))
    /\ pc = "raised" => (log # <<>> /\ log[Len(log)][1] \in FatalSteps
                           /\ log[Len(log)][3] = "raised")

C10_Witness ==
    /\ pc = "returned"
    /\ FatalStepsSucceeded
    /\ Logged("load_team_game_stats", 1, "raised")
    /\ Logged("load_player_game_stats", 2, "raised")

\* C11: a failure of object storage, in an existence check or in a put, leaves
\* the step that hit it as an error and ends the run as raised
C11_StorageFailureEndsRun ==
    (last.put = "failed" \/ last.headFault = "fault") => pc = "raised"

\* The keys a run over the games df writes behind the existence check, one
\* per game date and two per game id
FactKinds == {"games", "team_game_stats", "player_game_stats"}

Discovered(df, season) ==
    {games_key(season, df[i].GAME_DATE) : i \in 1..Len(df)}
    \cup {team_game_stats_key(season, df[i].GAME_ID) : i \in 1..Len(df)}
    \cup {player_game_stats_key(season, df[i].GAME_ID) : i \in 1..Len(df)}

FirstRun == prev.ended = "idle" /\ pc # "idle"

\* The run repeats a completed run: same season, same shot-zone flag, and a
\* date range that discovers the same games (the range acts on the run only
\* through the games extract_games returns)
SameRerun == prev.ended = "returned" /\ prev.params = params /\ prev.games = games

OneKeyPerDateAndGame ==
    (pc = "returned" /\ FirstRun) =>
        /\ {k \in store : k[1] \in FactKinds} = Discovered(games, params.season)
        /\ \A k \in Discovered(games, params.season) : puts[k] = 1

\* C12 as stated: with every call succeeding, a first run leaves exactly one
\* games key per discovered date and one team and one player stats key per
\* discovered game, and a run repeated with the same parameters puts nothing
C12_RerunWritesNothing ==
    /\ OneKeyPerDateAndGame
    /\ (pc = "returned" /\ SameRerun) => last.wrote = {}

\* C12, amended: with every call succeeding, a first run leaves exactly one
\* games key per discovered date and one team and one player stats key per
\* discovered game, each put once; a repeated run puts none of them again and
\* puts exactly the ungated teams, players and standings objects, plus the
\* player_team_history object of a day that had none
C12_RerunWritesOnlyUngated ==
    /\ OneKeyPerDateAndGame
    /\ pc = "returned" =>
           \A k \in Discovered(games, params.season) : k \in store /\ puts[k] = 1
    /\ (pc = "returned" /\ SameRerun) =>
           /\ \A k \in last.wrote :
                 \/ k[1] \in {"teams", "players", "standings"}
                 \/ k[1] = "player_team_history" /\ puts[k] = 1
           /\ {teams_key, players_key} \subseteq last.wrote
           /\ \E k \in last.wrote : k[1] = "standings"

C12_Witness ==
    /\ pc = "returned"
    /\ SameRerun
    /\ Len(game_ids(games)) = NumGames
    /\ Len(game_dates(games)) = NumDates
    /\ last.wrote = {teams_key, players_key, standings_key(params.season, today)}

\* C13: in a run with include_shot_zones false the shot-zone block is never
\* entered: no step of the run is a shot-zone step, so neither its box-score
\* call nor the shot-zone extractor is invoked, and no shot_zones key is in
\* the store
C13_ShotZonesOptIn ==
    ~params.include_shot_zones =>
        /\ pc # "shot_zones"
        /\ last.step # "shot_zones"
        /\ \A i \in 1..Len(log) : log[i][1] # "shot_zones"
        /\ \A k \in store : k[1] # "shot_zones"

C13_Witness ==
    /\ ~params.include_shot_zones
    /\ pc = "returned"
    /\ Len(game_ids(games)) = NumGames
    /\ \A i \in 1..NumGames : Logged("load_player_team_history", i, "ok")

UngatedSteps == {"load_teams", "load_players", "load_standings"}

\* C14: the teams, players and standings loads make no existence check and,
\* unless they raise, put their object whether or not its key is in the
\* store; a run that returns has made each of the three loads exactly once
\* and has put the teams, the players and a standings object
C14_UngatedAlwaysOverwritten ==
    /\ last.step \in UngatedSteps =>
          /\ last.exists = "none"
          /\ log[Len(log)][3] = "ok" => last.put = "ok" /\ last.key \in last.wrote
    /\ pc = "returned" =>
          /\ \A step \in UngatedSteps :
                Cardinality({i \in 1..Len(log) : log[i][1] = step}) = 1
          /\ {teams_key, players_key, standings_key(params.season, today)}
                \subseteq last.wrote

C14_Witness ==
    /\ pc = "returned"
    /\ prev.ended = "returned"
    /\ last.step = "load_standings"
    /\ last.existed
    /\ last.put = "ok"

\* Every invocation of fn but the first is preceded by exactly one sleep,
\* the k-th sleep following the k-th invocation, which timed out
OneSleepPerRetry ==
    /\ Len(rx.res.sleeps) = IF rx.res.calls = 0 THEN 0 ELSE rx.res.calls - 1
    /\ \A k \in 1..Len(rx.res.sleeps) : rx.fn[k] = "ReadTimeout" /\ k < rx.retries

C17_GamePairing ==
    fx.op = "load_games" =>
        \A game_id \in 1..MaxGameId :
            LET rows == fx.in
                group == {i \in 1..Len(rows) : rows[i].GAME_ID = game_id}
                emitted == {j \in 1..Len(fx.out) : fx.out[j].game_id = game_id}
                paired == /\ Cardinality(group) = 2
                          /\ \E h \in group, a \in group : ~rows[h].at /\ rows[a].at
            IN /\ paired <=> emitted # {}
               /\ Cardinality(emitted) <= 1
               /\ \A j \in emitted :
                     \E h \in group, a \in group :
                        /\ ~rows[h].at /\ rows[a].at
                        /\ fx.out[j].home_team_id = rows[h].TEAM_ID
                        /\ fx.out[j].home_score = rows[h].PTS
                        /\ fx.out[j].away_team_id = rows[a].TEAM_ID
                        /\ fx.out[j].away_score = rows[a].PTS

C17_Witness ==
    /\ fx.op = "load_games"
    /\ Len(fx.in) = 3
    /\ fx.in[1].GAME_ID = 1 /\ fx.in[1].at
    /\ fx.in[2].GAME_ID = 2
    /\ fx.in[3].GAME_ID = 1 /\ ~fx.in[3].at
    /\ Len(fx.out) = 1
    /\ fx.out[1].home_team_id = 3 /\ fx.out[1].away_team_id = 1

\* C18: the minutes parser gives MM + SS/60 rounded to 2 places for "MM:SS",
\* the count for a bare minute count, and 0.0 for every other value of the
\* field (a text without a number, a text with a wrong number of fields, a
\* missing field, None, NaN)
C18_MinutesParsing ==
    fx.op = "minutes" =>
        CASE fx.in.kind = "clock" ->
               fx.out = Minutes((100 * (60 * fx.in.mm + fx.in.ss) + 30) \div 60)
          [] fx.in.kind = "count" -> fx.out = Minutes(100 * fx.in.mm)
          [] OTHER -> fx.out = Minutes(0)

\* C19: for a non-empty list of attempts the shot-zone extractor writes one
\* row per distinct zone triple with fga the attempts and fgm the made
\* attempts of the triple and fg_pct = fgm/fga rounded to 3 places, the fga
\* summing to the number of attempts; for an empty list it writes nothing
C19_ShotZoneAggregation ==
    fx.op = "shot_zones" =>
        LET shots == fx.in
            rows == fx.out.rows
            triples == {shots[i].zone : i \in 1..Len(shots)}
            attempts(t) == {i \in 1..Len(shots) : shots[i].zone = t}
            makes(t) == {i \in attempts(t) : shots[i].SHOT_MADE_FLAG = 1}
        IN IF Len(shots) = 0 THEN ~fx.out.written /\ rows = <<>>
           ELSE /\ fx.out.written
                /\ Len(rows) = Cardinality(triples)
                /\ \A t \in triples :
                      \E j \in 1..Len(rows) :
                         /\ rows[j].zone = t
                         /\ rows[j].fga = Cardinality(attempts(t))
                         /\ rows[j].fgm = Cardinality(makes(t))
                         /\ rows[j].fga >= 1
                         /\ rows[j].fgm >= 0 /\ rows[j].fgm <= rows[j].fga
                         /\ 2 * rows[j].fga * rows[j].fg_pct - 2000 * rows[j].fgm
                               \in (1 - rows[j].fga)..rows[j].fga

\* C20: no external call of a run starts while the call before it has not
\* been followed by a rate_limit wait
C20_CallsSpacedByRateLimit == last.spaced

\* C21: while a single ingesting process works on a season and each of its
\* existence checks on a written key is answered, no gated key is put more
\* than once; two processes that both see the key absent before either has
\* put both put it (C21_Witness)
C21_SingleWriterNoRace ==
    (Cardinality(Started) = 1 /\ \A w \in Started : ~writers[w].unanswered)
        => \A k \in GatedKeys : puts[k] <= 1

C21_Witness ==
    /\ Cardinality(Started) = 2
    /\ \A w \in Started : ~writers[w].unanswered
    /\ puts[WriterKey] = 2

\* C22: a load of a per-game fact (team stats, player stats, player-team
\* history) whose key exists returns after the existence check: no external
\* call, no rate_limit wait, no put; so a run makes per-game external calls
\* only for keys that are absent when the load starts
PerGameFacts == {"load_team_game_stats", "load_player_game_stats",
                 "load_player_team_history"}

C22_ExistingKeyShortCircuits ==
    last.step \in PerGameFacts =>
        /\ last.exists = "True" =>
              /\ last.calls = 0
              /\ last.waits = 0
              /\ last.events = <<>>
              /\ last.put = "none"
              /\ log[Len(log)] = <<last.step, log[Len(log)][2], "ok">>
        /\ last.calls > 0 => ~last.existed

\* a rerun over a wider date range skips the game the run before landed
C22_Witness ==
    /\ prev.ended = "returned"
    /\ Len(prev.games) < Len(games)
    /\ last.step = "load_player_game_stats"
    /\ last.existed
    /\ last.calls = 0
    /\ last.put = "none"

\* C23: with include_shot_zones true, the shot-zone pass of run for a game
\* whose box score holds a player with nonzero minutes runs the shot-zone
\* extractor for that player, so the pass ends without an exception
C23_ShotZonePassRuns ==
    (params.include_shot_zones /\ last.step = "shot_zones" /\ last.calls > 0)
        => log[Len(log)][3] = "ok"

\* C24: the player-team-history snapshot of a calendar day is put at most
\* once, over all games of a run, and a call of load_player_team_history
\* that finds the day's snapshot landed makes no external call and no put
C24_OneHistoryPerDay ==
    /\ \A s \in Seasons, t \in Days : puts[player_team_history_key(s, t)] <= 1
    /\ (last.step = "load_player_team_history" /\ last.existed)
          => (last.calls = 0 /\ last.put = "none")

\* C25: extract_games keeps exactly the rows of the source whose date d has
\* date_from <= d <= date_to, an omitted bound not constraining; load_games
\* makes one existence check per distinct date of the kept rows, in a key
\* of such a date, and puts the key when it is absent, so no key of a date
\* outside the range is checked or put
InRange(d, range) ==
    /\ (range[1] = None \/ range[1] <= d)
    /\ (range[2] = None \/ d <= range[2])

KeptDates == {games[j].GAME_DATE : j \in 1..Len(games)}

DayChecks(d) == Cardinality({i \in 1..Len(log) : log[i][1] = "load_games" /\ log[i][2] = d})

C25_DateRangeAndDayKeys ==
    /\ (last.step = "extract_games" /\ pc # "raised") =>
          /\ \A i \in 1..Len(source) :
                (\E j \in 1..Len(games) : games[j] = source[i])
                    <=> InRange(source[i].GAME_DATE, last.range)
          /\ \A j \in 1..Len(games) : \E i \in 1..Len(source) : games[j] = source[i]
          /\ Len(games) <= Len(source)
    /\ last.step = "load_games" =>
          /\ \E d \in KeptDates : /\ last.key = games_key(params.season, d)
                                   /\ log[Len(log)][2] = d
          /\ ~last.existed => last.put \in {"ok", "failed"}
          /\ last.put = "ok" => last.key \in store
          /\ last.exists = "True" => last.put = "none"
    /\ \A d \in Dates : DayChecks(d) <= (IF d \in KeptDates THEN 1 ELSE 0)
    /\ pc \in PerGameSteps \cup {"load_standings", "returned"} =>
          \A d \in KeptDates : DayChecks(d) = 1

\* a run whose range kept the game of date 2 only has landed that day and
\* no other; the next run keeps both dates and puts the day of date 1 only
C25_Witness ==
    /\ pc \in PerGameSteps
    /\ prev.ended = "returned"
    /\ {prev.games[j].GAME_DATE : j \in 1..Len(prev.games)} = {2}
    /\ KeptDates = {1, 2}
    /\ {k \in last.wrote : k[1] = "games"} = {games_key(params.season, 1)}
    /\ puts[games_key(params.season, 2)] = 1

\* C26: in every stat loader of both variants the merged table is a left
\* join of the traditional table with the advanced one: every traditional
\* row appears in it, with null advanced fields when no advanced row has
\* its key, and every row of it comes from a traditional row
C26_MergeIsLeftJoin ==
    fx.op = "merge" =>
        /\ \A i \in 1..Len(fx.trad) :
              /\ \E n \in 1..Len(fx.out) : fx.out[n].trad = i
              /\ (\A j \in 1..Len(fx.adv) : fx.adv[j] # fx.trad[i])
                    => \E n \in 1..Len(fx.out) :
                          fx.out[n].trad = i /\ fx.out[n].adv = NoMatch
        /\ \A n \in 1..Len(fx.out) :
              /\ fx.out[n].trad \in 1..Len(fx.trad)
              /\ fx.out[n].key = fx.trad[fx.out[n].trad]
              /\ fx.out[n].adv # NoMatch => fx.adv[fx.out[n].adv] = fx.out[n].key

GamesUpdated == {"home_score", "away_score", "status"}

GamesKept == {"game_date", "season", "home_team_id", "away_team_id"}

C28_UpsertFrame ==
    (fx.op = "upsert" /\ \E r \in fx.before : Conflicts(r, fx.row, fx.u)) =>
        LET old == CHOOSE r \in fx.before : Conflicts(r, fx.row, fx.u)
            hits == {r \in fx.out : Conflicts(r, fx.row, fx.u)}
        IN /\ Cardinality(hits) = 1
           /\ Cardinality(fx.out) = Cardinality(fx.before)
           /\ \A r \in fx.before : ~Conflicts(r, fx.row, fx.u) => r \in fx.out
           /\ \A r \in hits : \A c \in fx.u.cols :
                 /\ c \notin fx.u.update => r[c] = old[c]
                 /\ c \in fx.u.update => r[c] = fx.row[c]
           /\ fx.u.table = "games" =>
                 /\ fx.u.update = GamesUpdated
                 /\ \A r \in hits : \A c \in GamesKept : r[c] = old[c]

\* a game is reloaded with every column different: the scores and the
\* status are the new ones, the date and the teams the stored ones
C28_Witness ==
    /\ fx.op = "upsert"
    /\ fx.u.table = "games"
    /\ \E r \in fx.before : Conflicts(r, fx.row, fx.u)
    /\ \A c \in GamesKept : fx.row[c] = "new"
    /\ \E r \in fx.out : /\ r["home_score"] = "new"
                          /\ r["game_date"] = "old"

\* C29: run_incremental_update(season, days_back = N) takes date_from as the
\* day N days before the day the clock shows and date_to as the day the
\* clock shows, and is run_full_etl with these bounds (no shot zones): for
\* N >= 0 date_from <= date_to, and the games it processes are those a full
\* run with the same bounds processes, the games played from N days ago
\* to today
C29_IncrementalIsBoundedFullRun ==
    fx.op = "incremental" =>
        /\ fx.date_from = strftime(fx.now1 - fx.days_back)
        /\ fx.date_to = strftime(fx.now2)
        /\ fx.days_back >= 0 => StrLE(fx.date_from, fx.date_to)
        /\ fx.out = run_full_etl(EtlRows(fx.dates), fx.date_from, fx.date_to, FALSE,
                                 fx.fails)
        /\ fx.out.result = "returned" =>
              /\ {fx.out.processed[i] : i \in 1..Len(fx.out.processed)}
                    = {g \in 1..NumEtlGames :
                          fx.now1 - fx.days_back <= fx.dates[g] /\ fx.dates[g] <= fx.now2}
              /\ \A i, j \in 1..Len(fx.out.processed) :
                    fx.out.processed[i] = fx.out.processed[j] => i = j

\* a one-day look-back across a month boundary leaves out the game played
\* before the window and processes the game played today
C29_Witness ==
    /\ fx.op = "incremental"
    /\ fx.days_back = 1
    /\ fx.now1 = fx.now2
    /\ fx.date_from[1] < fx.date_to[1]
    /\ fx.out.result = "returned"
    /\ fx.out.processed = <<2>>
    /\ fx.dates[1] < fx.now1 - 1

\* C30: NBA_ETL.run_full_etl raises to its caller when the standings
\* extraction or load fails, as it does when the teams, players or games
\* steps fail, and a failure of a per-game stat load never makes it raise
C30_StandingsFailureRaises ==
    fx.op = "full_etl" =>
        /\ fx.out.standings = "failed" => fx.out.result = "raised"
        /\ fx.fails \cap {"teams", "players", "extract_games", "load_games"} # {}
              => fx.out.result = "raised"
        /\ fx.fails \subseteq {"team_game_stats", "player_game_stats"}
              => fx.out.result = "returned"

\* C31: a gated key is in the bucket only through a put that succeeded, so
\* a per-game load that fails before its put leaves no key that later runs
\* would skip; and under repeated runs over the season in which the calls
\* of the per-game loads succeed again and again, the team-stat and
\* player-stat objects of every game of the season are eventually put
NoKeyWithoutPut == \A k \in GatedKeys : k \in store => puts[k] >= 1

Landed(g) ==
    \A s \in Seasons : /\ puts[team_game_stats_key(s, g)] >= 1
                       /\ puts[player_game_stats_key(s, g)] >= 1

C31_SelfHealing ==
    /\ []NoKeyWithoutPut
    /\ \A g \in 1..NumGames : <>Landed(g)

\* the run before processed game 1 and returned without its team stats; this
\* run has put them
C31_Witness ==
    /\ prev.ended = "returned"
    /\ \E j \in 1..Len(prev.games) : prev.games[j].GAME_ID = 1
    /\ last.step = "load_team_game_stats"
    /\ last.key = team_game_stats_key(params.season, 1)
    /\ ~last.existed
    /\ last.put = "ok"

\* C32: for every retries, retries <= 0 included, nba_call_with_retry comes
\* back to its caller only after it has invoked fn: it returns a value an
\* invocation of fn produced, or it raises
C32_InvokesBeforeReturning ==
    rx.res.status # "none" =>
        /\ rx.res.calls >= 1
        /\ rx.res.status = "returned" => rx.res.value \in Values

\* C33: on every way out of run_full_etl (completion, an exception of a
\* step, a failure of connect) disconnect is called exactly once, as the
\* last call; when a step has raised after the connection was opened the
\* transaction is rolled back first; and the exception that reaches the
\* caller is the one that was raised
C33_ConnectionLifecycle ==
    fx.op = "full_etl" =>
        LET calls == fx.exit.calls
        IN /\ calls[Len(calls)] = "disconnect"
           /\ Cardinality({i \in 1..Len(calls) : calls[i] = "disconnect"}) = 1
           /\ calls[1] = "connect"
           /\ (fx.out.result = "raised" /\ "connect" \notin fx.fails)
                 => \E i \in 1..Len(calls) : calls[i] = "rollback"
           /\ fx.out.result = "raised" <=> fx.exit.caller # "return"
           /\ fx.out.result = "raised" => fx.exit.caller = "the exception"

\* the games row of a game id, in a set
GamesRowOf(game_id) ==
    {fx.out.games[i] : i \in {j \in 1..Len(fx.out.games) : fx.out.games[j].game_id = game_id}}

\* every team_game_stats row of a run has a games
\* row, and is_home is true exactly for the home team of that row
TeamStatsReferToGames ==
    fx.op = "load_facts" =>
        \A i \in 1..Len(fx.out.team_game_stats) :
            LET r == fx.out.team_game_stats[i]
            IN /\ GamesRowOf(r.game_id) # {}
               /\ \A g \in GamesRowOf(r.game_id) : r.is_home <=> r.team_id = g.home_team_id

\* C34: after a run every game id with rows in team_game_stats or
\* player_game_stats has a row in games, games dropped by pairing
\* included, and a team_game_stats row has is_home true exactly when its
\* team is the home team of the games row
C34_ReferentialIntegrity ==
    /\ TeamStatsReferToGames
    /\ fx.op = "load_facts" =>
          \A i \in 1..Len(fx.out.player_game_stats) :
              GamesRowOf(fx.out.player_game_stats[i].game_id) # {}

\* the frame the run has left under key k: that of its last put there
StoredHistory(k) ==
    LET at == {i \in 1..Len(last.snapshots) : last.snapshots[i][1] = k}
        latest == CHOOSE i \in at : \A j \in at : j <= i
    IN history_df(last.snapshots[latest][2])

Rows(df) == {df[i] : i \in 1..Len(df)}

\* the games whose box score was requested for the snapshot under key k
AskedFor(k) == {a[2] : a \in {b \in last.asked : b[1] = k}}

\* C35: within a run load_player_team_history requests the box score of at
\* most one game for the snapshot of a day, the first whose history load
\* reaches the put; the snapshot stored holds exactly the distinct (player,
\* team, abbreviation) triples of that game, and no player of another game
\* of the run
C35_SnapshotIsOfOneGame ==
    /\ \A a \in last.asked : Cardinality(AskedFor(a[1])) <= 1
    /\ \A i \in 1..Len(last.snapshots) :
          LET k == last.snapshots[i][1]
              first == last.snapshots[i][2]
          IN /\ AskedFor(k) = {first}
             /\ StoredHistory(k) = history_df(first)
             /\ \A j \in 1..Len(game_ids(games)) :
                   game_ids(games)[j] # first
                      => Rows(history_df(game_ids(games)[j])) \cap Rows(StoredHistory(k)) = {}

\* at most one row of the table has each value of the conflict target
OneRowPerKey(rows, u) ==
    \A r1 \in rows, r2 \in rows : Conflicts(r1, r2, u) => r1 = r2

\* C36: load_teams, load_players or load_games applied twice with the same
\* tuples leaves the table as one application does, and after either the
\* table holds at most one row for each team_id, player_id or game_id
C36_UpsertIdempotent ==
    fx.op = "load_entities" =>
        /\ fx.again = fx.out
        /\ OneRowPerKey(fx.out, fx.u)
        /\ OneRowPerKey(fx.again, fx.u)
        /\ fx.u.target \in {{"team_id"}, {"player_id"}, {"game_id"}}

\* a stored game is loaded with two tuples of its key that differ from it
\* and from each other
C36_Witness ==
    /\ fx.op = "load_entities"
    /\ fx.u.table = "games"
    /\ Len(fx.data) = 2
    /\ fx.data[1] # fx.data[2]
    /\ \A i \in 1..2 : \E r \in fx.before : Conflicts(r, fx.data[i], fx.u) /\ r # fx.data[i]
    /\ fx.out # fx.before

\* the frame the rows of a result are built from
OppSource == IF fx.df = <<>> THEN fx.game_rows ELSE fx.df

====
